---- MODULE Spec2Model ----
(***************************************************************************)
(* Model of the byte-level BPE tokenizer of gpt4-tokenizer:                *)
(*   - GPTTokenizer   (runtime: encode / decode / tokenize, memo cache)    *)
(*   - GPT4Tokenizer  (trainer: train, encode, byte vocabulary)            *)
(* Strings are sequences of UTF-16 code units (natural numbers); a token   *)
(* string is a sequence of byte-glyph code units.                          *)
(***************************************************************************)
EXTENDS Integers, Sequences, FiniteSets, TLC

VARIABLES
    byte, glyph, back,              \* codec probe: a byte, byteEncoder[byte], byteDecoder[glyph]
    text, parts, chunks,            \* input text, splitBySpecialTokens(text), matchAll(pattern)
    token, word, merged, bpePc,     \* GPTTokenizer.bpe: chunk, current word, pair merged last, position
    data, cache,                    \* GPTTokenizer instance: constructor data, memo cache
    calls, op, tokenIds, out, hits, \* calls made, last call, decode's input, its result, its cache hits
    systemText, userText,           \* page component: the two text fields
    isVerified,                     \* page component: formattedText === decoded
    trainerVocab, trainerMerges,    \* GPT4Tokenizer (trainer): this.vocab, this.merges
    trainerSpecials, nextTokenId,   \* this.specialTokens, this.nextTokenId
    corpus, vocabSize, wordFreqs,   \* train: the text read, the target, the frequency table
    trainPc,                        \* train: "new", "loop" or "done"
    trainKind, trainEnd,            \* the method called last, how it ended (its loop, or load)
    trainCalls, loads, vocabBefore, \* calls of training methods, of load, vocab.size at the last call
    mergeCount,                     \* let mergeCount of the running training method
    loading, mergesText,            \* page: useState(true), the text fetched from merges.txt
    trainerText, trainerOut         \* the trainer's encode: its input and its result

vars == <<byte, glyph, back, text, parts, chunks, token, word, merged, bpePc,
          data, cache, calls, op, tokenIds, out, hits, systemText, userText, isVerified,
          trainerVocab, trainerMerges, trainerSpecials, nextTokenId,
          corpus, vocabSize, wordFreqs, trainPc, trainKind, trainEnd,
          trainCalls, loads, vocabBefore, mergeCount, loading, mergesText,
          trainerText, trainerOut>>

None == "none"

\* ------------------------------------------------------------------------
\* Sequence helpers
\* ------------------------------------------------------------------------

Range(a, b) == [i \in 1..(b - a + 1) |-> a + i - 1]

Includes(s, x) == \E i \in 1..Len(s) : s[i] = x

Slice(s, from, to) == IF to < from THEN <<>> ELSE SubSeq(s, from, to)

\* The value of the one-element set S. A value that is used more than once
\* is bound as x \in {e}, which evaluates e once, where LET would evaluate it
\* again at every use.
The(S) == CHOOSE r \in S : TRUE

RECURSIVE Flatten(_)
Flatten(ss) == IF ss = <<>> THEN <<>> ELSE Head(ss) \o Flatten(Tail(ss))

\* last index i with s[i] = x (a later assignment to the same key overwrites)
LastIndexOf(s, x) ==
    LET at == {i \in 1..Len(s) : s[i] = x}
    IN  CHOOSE i \in at : \A j \in at : j <= i

\* ------------------------------------------------------------------------
\* Byte/glyph codec: GPTTokenizer.initializeByteMappings
\* ------------------------------------------------------------------------

\* the three for-loops that push the directly printable bytes
PrintableBytes == Range(33, 126) \o Range(161, 172) \o Range(174, 255)

\* for (let b = 0; b < 256; b++) if (!bytes.includes(b)) bytes.push(b):
\* the bytes pushed, in the order of the loop (a pushed b is not met again)
RemainingBytes == SelectSeq(Range(0, 255), LAMBDA b : ~Includes(PrintableBytes, b))

\* a variant: the offset one too low, cs.push(255 + n)
ShiftedCodeOff(n) == 255 + n

\* cs.push(256 + n); n++
ShiftedCode(n) == 256 + n

\* bytes and cs after the loops
ByteTables ==
    [bytes |-> PrintableBytes \o RemainingBytes,
     cs |-> PrintableBytes \o [i \in 1..Len(RemainingBytes) |-> ShiftedCode(i - 1)]]

\* String.fromCharCode(c): the code unit c modulo 2^16
FromCharCode(c) == c % 65536

\* cs.forEach((c, i) => { byteEncoder[bytes[i]] = char; byteDecoder[char] = bytes[i] })
byteEncoder ==
    LET t == ByteTables
    IN  [b \in {t.bytes[i] : i \in 1..Len(t.bytes)} |->
            FromCharCode(t.cs[LastIndexOf(t.bytes, b)])]

byteDecoder ==
    LET t == ByteTables
        chars == [i \in 1..Len(t.cs) |-> FromCharCode(t.cs[i])]
    IN  [c \in {chars[i] : i \in 1..Len(chars)} |-> t.bytes[LastIndexOf(chars, c)]]

\* ------------------------------------------------------------------------
\* UTF-8: TextEncoder.encode and TextDecoder.decode (non-fatal, BOM ignored)
\* ------------------------------------------------------------------------

IsHighSurrogate(c) == c >= 55296 /\ c <= 56319
IsLowSurrogate(c) == c >= 56320 /\ c <= 57343

Utf8OfCodePoint(cp) ==
    IF cp < 128 THEN <<cp>>
    ELSE IF cp < 2048 THEN <<192 + (cp \div 64), 128 + (cp % 64)>>
    ELSE IF cp < 65536
         THEN <<224 + (cp \div 4096), 128 + ((cp \div 64) % 64), 128 + (cp % 64)>>
    ELSE <<240 + (cp \div 262144), 128 + ((cp \div 4096) % 64),
           128 + ((cp \div 64) % 64), 128 + (cp % 64)>>

\* new TextEncoder().encode(s): a surrogate pair is one code point, a lone
\* surrogate is encoded as U+FFFD
RECURSIVE TextEncode(_)
TextEncode(s) ==
    IF s = <<>> THEN <<>>
    ELSE LET c == Head(s)
         IN  IF IsHighSurrogate(c) /\ Len(s) > 1 /\ IsLowSurrogate(s[2])
             THEN Utf8OfCodePoint(65536 + (c - 55296) * 1024 + (s[2] - 56320))
                      \o TextEncode(Tail(Tail(s)))
             ELSE IF IsHighSurrogate(c) \/ IsLowSurrogate(c)
                  THEN Utf8OfCodePoint(65533) \o TextEncode(Tail(s))
                  ELSE Utf8OfCodePoint(c) \o TextEncode(Tail(s))

\* a decoded code point as UTF-16 code units
Utf16OfCodePoint(cp) ==
    IF cp < 65536 THEN <<cp>>
    ELSE <<55296 + ((cp - 65536) \div 1024), 56320 + ((cp - 65536) % 1024)>>

\* The UTF-8 decoder of the Encoding standard, error mode "replacement":
\* st = [cp, seen, needed, lower, upper]
Utf8Start == [cp |-> 0, seen |-> 0, needed |-> 0, lower |-> 128, upper |-> 191]

RECURSIVE Utf8Decode(_, _, _)
Utf8Decode(bytes, i, st) ==
    IF i > Len(bytes)
    THEN IF st.needed # 0 THEN <<65533>> ELSE <<>>
    ELSE LET b == bytes[i]
         IN  IF st.needed = 0
             THEN IF b <= 127 THEN <<b>> \o Utf8Decode(bytes, i + 1, Utf8Start)
                  ELSE IF b >= 194 /\ b <= 223
                       THEN Utf8Decode(bytes, i + 1,
                                [Utf8Start EXCEPT !.needed = 1, !.cp = b % 32])
                  ELSE IF b >= 224 /\ b <= 239
                       THEN Utf8Decode(bytes, i + 1,
                                [Utf8Start EXCEPT !.needed = 2, !.cp = b % 16,
                                                  !.lower = IF b = 224 THEN 160 ELSE 128,
                                                  !.upper = IF b = 237 THEN 159 ELSE 191])
                  ELSE IF b >= 240 /\ b <= 244
                       THEN Utf8Decode(bytes, i + 1,
                                [Utf8Start EXCEPT !.needed = 3, !.cp = b % 8,
                                                  !.lower = IF b = 240 THEN 144 ELSE 128,
                                                  !.upper = IF b = 244 THEN 143 ELSE 191])
                  ELSE <<65533>> \o Utf8Decode(bytes, i + 1, Utf8Start)
             ELSE IF b < st.lower \/ b > st.upper
                  THEN <<65533>> \o Utf8Decode(bytes, i, Utf8Start)
                  ELSE LET cp == st.cp * 64 + (b % 64)
                       IN  IF st.seen + 1 = st.needed
                           THEN Utf16OfCodePoint(cp) \o Utf8Decode(bytes, i + 1, Utf8Start)
                           ELSE Utf8Decode(bytes, i + 1,
                                    [Utf8Start EXCEPT !.needed = st.needed, !.cp = cp,
                                                      !.seen = st.seen + 1])

\* new TextDecoder().decode(bytes): ignoreBOM is false, a leading EF BB BF is dropped
TextDecode(bytes) ==
    IF Len(bytes) >= 3 /\ bytes[1] = 239 /\ bytes[2] = 187 /\ bytes[3] = 191
    THEN Utf8Decode(bytes, 4, Utf8Start)
    ELSE Utf8Decode(bytes, 1, Utf8Start)

\* ------------------------------------------------------------------------
\* Pre-tokenization pattern (GPTTokenizer.pattern, GPT4Tokenizer.gpt4Pattern)
\* ------------------------------------------------------------------------

\* \s of a JavaScript regular expression
WhiteSpace == {9, 10, 11, 12, 13, 32, 160, 5760, 8232, 8233, 8239, 8287, 12288, 65279}
                  \cup (8192..8202)

\* \p{L} and \p{N}, given for the code points below 256; the only code point
\* above 255 that the modelled texts use is U+20AC, which is in neither
IsLetter(c) ==
    \/ c >= 65 /\ c <= 90
    \/ c >= 97 /\ c <= 122
    \/ c \in {170, 181, 186}
    \/ c >= 192 /\ c <= 214
    \/ c >= 216 /\ c <= 246
    \/ c >= 248 /\ c <= 255

IsNumber(c) == (c >= 48 /\ c <= 57) \/ c \in {178, 179, 185, 188, 189, 190}

IsSpace(c) == c \in WhiteSpace

\* character classes of the pattern: \p{L}, \p{N}, [^\s\p{L}\p{N}], \s
InClass(c, class) ==
    CASE class = "L" -> IsLetter(c)
      [] class = "N" -> IsNumber(c)
      [] class = "O" -> ~IsSpace(c) /\ ~IsLetter(c) /\ ~IsNumber(c)
      [] class = "S" -> IsSpace(c)

\* X+ : the length of the longest run of class characters starting at pos
RECURSIVE RunLen(_, _, _)
RunLen(s, pos, class) ==
    IF pos > Len(s) \/ ~InClass(s[pos], class) THEN 0
    ELSE 1 + RunLen(s, pos + 1, class)

LiteralAt(s, pos, lit) ==
    /\ pos + Len(lit) - 1 <= Len(s)
    /\ \A i \in 1..Len(lit) : s[pos + i - 1] = lit[i]

\* the contraction alternatives in the order the pattern tries them
\* GPTTokenizer.pattern: 's|'t|'re|'ve|'m|'ll|'d
Contractions ==
    << <<39, 115>>, <<39, 116>>, <<39, 114, 101>>, <<39, 118, 101>>,
       <<39, 109>>, <<39, 108, 108>>, <<39, 100>> >>

\* GPT4Tokenizer.gpt4Pattern: '(?:[sdmt]|ll|ve|re)
Gpt4Contractions ==
    << <<39, 115>>, <<39, 100>>, <<39, 109>>, <<39, 116>>,
       <<39, 108, 108>>, <<39, 118, 101>>, <<39, 114, 101>> >>

RECURSIVE FirstLiteralLen(_, _, _, _)
FirstLiteralLen(s, pos, lits, k) ==
    IF k > Len(lits) THEN 0
    ELSE IF LiteralAt(s, pos, lits[k]) THEN Len(lits[k])
    ELSE FirstLiteralLen(s, pos, lits, k + 1)

\*  ?X+ : the greedy optional space is taken when a run follows it, and given
\* back otherwise
OptSpaceRun(s, pos, class) ==
    IF s[pos] = 32 /\ RunLen(s, pos + 1, class) > 0
    THEN 1 + RunLen(s, pos + 1, class)
    ELSE RunLen(s, pos, class)

\* \s+(?!\S) : the whole run at the end of the input, else the run less its
\* last character (which then is the whitespace the lookahead sees)
SpaceLookahead(s, pos) ==
    LET n == RunLen(s, pos, "S")
    IN  IF n = 0 THEN 0
        ELSE IF pos + n > Len(s) THEN n
        ELSE n - 1

\* the length each alternative matches at pos (0: it does not match), in the
\* order of the pattern
AltLens(s, pos, contractions) ==
    << FirstLiteralLen(s, pos, contractions, 1),
       OptSpaceRun(s, pos, "L"),
       OptSpaceRun(s, pos, "N"),
       OptSpaceRun(s, pos, "O"),
       SpaceLookahead(s, pos),
       RunLen(s, pos, "S") >>

\* a variant: the alternation takes the longest of its alternatives' matches
RECURSIVE LongestFrom(_, _)
LongestFrom(lens, k) ==
    IF k > Len(lens) THEN 0
    ELSE The({ IF lens[k] > rest THEN lens[k] ELSE rest : rest \in {LongestFrom(lens, k + 1)} })

\* an alternation takes the first alternative that matches
RECURSIVE FirstNonZero(_, _)
FirstNonZero(lens, k) ==
    IF k > Len(lens) THEN 0
    ELSE IF lens[k] > 0 THEN lens[k]
    ELSE FirstNonZero(lens, k + 1)

\* a variant: the pattern without its last alternative \s+
MatchLenSkipAlt(s, pos, contractions) ==
    FirstNonZero(SubSeq(AltLens(s, pos, contractions), 1, 5), 1)

MatchLen(s, pos, contractions) == FirstNonZero(AltLens(s, pos, contractions), 1)

\* Array.from(s.matchAll(pattern), m => m[0]): the next match is searched from
\* the end of the previous one; a position where nothing matches is passed over
RECURSIVE MatchAllFrom(_, _, _)
MatchAllFrom(s, pos, contractions) ==
    IF pos > Len(s) THEN <<>>
    ELSE The({ IF n = 0 THEN MatchAllFrom(s, q + 1, contractions)
               ELSE <<SubSeq(s, q, q + n - 1)>> \o MatchAllFrom(s, q + n, contractions) :
               <<q, n>> \in {<<pos, MatchLen(s, pos, contractions)>>} })

MatchAll(s) == MatchAllFrom(s, 1, Contractions)

Gpt4MatchAll(s) == MatchAllFrom(s, 1, Gpt4Contractions)

\* ------------------------------------------------------------------------
\* Special tokens of GPTTokenizer and splitBySpecialTokens
\* ------------------------------------------------------------------------

\* GPTTokenizer.specialTokens, in the order of the object literal
specialTokens == <<
    [token |-> <<60,124,105,109,95,115,116,97,114,116,124,62>>, id |-> 100264],  \* <|im_start|>
    [token |-> <<60,124,105,109,95,101,110,100,124,62>>, id |-> 100265],  \* <|im_end|>
    [token |-> <<60,124,105,109,95,115,101,112,124,62>>, id |-> 100266],  \* <|im_sep|>
    [token |-> <<60,124,101,110,100,111,102,116,101,120,116,124,62>>, id |-> 100257],  \* <|endoftext|>
    [token |-> <<60,124,102,105,109,95,112,114,101,102,105,120,124,62>>, id |-> 100258],  \* <|fim_prefix|>
    [token |-> <<60,124,102,105,109,95,109,105,100,100,108,101,124,62>>, id |-> 100259],  \* <|fim_middle|>
    [token |-> <<60,124,102,105,109,95,115,117,102,102,105,120,124,62>>, id |-> 100260],  \* <|fim_suffix|>
    [token |-> <<60,124,115,116,97,114,116,111,102,116,101,120,116,124,62>>, id |-> 100261],  \* <|startoftext|>
    [token |-> <<60,124,101,110,100,111,102,112,114,111,109,112,116,124,62>>, id |-> 100262],  \* <|endofprompt|>
    [token |-> <<60,124,115,116,97,114,116,111,102,115,121,115,116,101,109,124,62>>, id |-> 100263],  \* <|startofsystem|>
    [token |-> <<60,124,101,110,100,111,102,115,121,115,116,101,109,124,62>>, id |-> 100267],  \* <|endofsystem|>
    [token |-> <<60,124,115,116,97,114,116,111,102,117,115,101,114,124,62>>, id |-> 100268],  \* <|startofuser|>
    [token |-> <<60,124,101,110,100,111,102,117,115,101,114,124,62>>, id |-> 100269],  \* <|endofuser|>
    [token |-> <<60,124,115,116,97,114,116,111,102,97,115,115,105,115,116,97,110,116,124,62>>, id |-> 100270],  \* <|startofassistant|>
    [token |-> <<60,124,101,110,100,111,102,97,115,115,105,115,116,97,110,116,124,62>>, id |-> 100271],  \* <|endofassistant|>
    [token |-> <<60,124,102,117,110,99,116,105,111,110,95,99,97,108,108,124,62>>, id |-> 100272],  \* <|function_call|>
    [token |-> <<60,124,102,117,110,99,116,105,111,110,95,114,101,115,112,111,110,115,101,124,62>>, id |-> 100273],  \* <|function_response|>
    [token |-> <<60,124,116,111,111,108,95,99,97,108,108,124,62>>, id |-> 100274],  \* <|tool_call|>
    [token |-> <<60,124,116,111,111,108,95,114,101,115,112,111,110,115,101,124,62>>, id |-> 100275],  \* <|tool_response|>
    [token |-> <<60,124,115,121,115,116,101,109,124,62>>, id |-> 100276],  \* <|system|>
    [token |-> <<60,124,117,115,101,114,124,62>>, id |-> 100277],  \* <|user|>
    [token |-> <<60,124,97,115,115,105,115,116,97,110,116,124,62>>, id |-> 100278],  \* <|assistant|>
    [token |-> <<60,124,99,111,100,101,124,62>>, id |-> 100279],  \* <|code|>
    [token |-> <<60,124,47,99,111,100,101,124,62>>, id |-> 100280],  \* <|/code|>
    [token |-> <<60,124,116,104,111,117,103,104,116,124,62>>, id |-> 100281],  \* <|thought|>
    [token |-> <<60,124,47,116,104,111,117,103,104,116,124,62>>, id |-> 100282]  \* <|/thought|>
    >>

\* Object.keys(this.specialTokens)
SpecialKeys == [i \in 1..Len(specialTokens) |-> specialTokens[i].token]

SpecialLiterals == {SpecialKeys[i] : i \in 1..Len(SpecialKeys)}

\* token in this.specialTokens / Object.keys(this.specialTokens).includes(token)
isSpecialToken(t) == t \in SpecialLiterals

SpecialId(t) == specialTokens[CHOOSE i \in 1..Len(specialTokens) : specialTokens[i].token = t].id

\* .sort((a, b) => b.length - a.length): a stable sort, longest first
RECURSIVE InsertByLength(_, _)
InsertByLength(sorted, x) ==
    IF sorted = <<>> THEN <<x>>
    ELSE IF Len(Head(sorted)) >= Len(x)
         THEN <<Head(sorted)>> \o InsertByLength(Tail(sorted), x)
         ELSE <<x>> \o sorted

RECURSIVE SortByLength(_, _)
SortByLength(keys, k) ==
    IF k = 0 THEN <<>>
    ELSE InsertByLength(SortByLength(keys, k - 1), keys[k])

\* the alternatives of specialTokenRegex, in its order
SpecialAlternatives == SortByLength(SpecialKeys, Len(SpecialKeys))

\* one attempt of the regular expression at pos: the first alternative that
\* matches there (its length), 0 when none does
SpecialMatchLen(s, pos) == FirstLiteralLen(s, pos, SpecialAlternatives, 1)

\* specialTokenRegex.exec(text): the leftmost match at or after lastIndex,
\* as [index, len]; len = 0 when there is none (exec returns null)
RECURSIVE SpecialExec(_, _)
SpecialExec(s, from) ==
    IF from > Len(s) THEN [index |-> from, len |-> 0]
    ELSE The({ IF n > 0 THEN [index |-> q, len |-> n] ELSE SpecialExec(s, q + 1) :
               <<q, n>> \in {<<from, SpecialMatchLen(s, from)>>} })

\* a variant: the text before a match is not pushed
PlainBeforeOff(s, lastIndex, index) == <<>>

\* if (match.index > lastIndex) parts.push({text: text.slice(lastIndex, match.index), isSpecial: false})
PlainBefore(s, lastIndex, index) ==
    IF index > lastIndex
    THEN << [text |-> SubSeq(s, lastIndex, index - 1), isSpecial |-> FALSE] >>
    ELSE <<>>

\* the while loop of splitBySpecialTokens and the push of the rest;
\* lastIndex is the 1-based position of the first character not yet in a part
RECURSIVE SplitFrom(_, _)
SplitFrom(s, lastIndex) ==
    The({ IF m.len = 0
          THEN IF last <= Len(s)
               THEN << [text |-> SubSeq(s, last, Len(s)), isSpecial |-> FALSE] >>
               ELSE <<>>
          ELSE PlainBefore(s, last, m.index)
                   \o << [text |-> SubSeq(s, m.index, m.index + m.len - 1), isSpecial |-> TRUE] >>
                   \o SplitFrom(s, m.index + m.len) :
          <<last, m>> \in {<<lastIndex, SpecialExec(s, lastIndex)>>} })

splitBySpecialTokens(s) == SplitFrom(s, 1)

\* ------------------------------------------------------------------------
\* GPTTokenizer: constructor tables
\* ------------------------------------------------------------------------

\* cache and vocab are plain objects ({} and an object spread): a key that is
\* not an own property is looked up on Object.prototype, whose properties
\* (constructor, __defineGetter__, __defineSetter__, hasOwnProperty,
\* __lookupGetter__, __lookupSetter__, isPrototypeOf, propertyIsEnumerable,
\* toString, valueOf, __proto__, toLocaleString) are functions or objects
ObjectPrototypeKeys == {
    <<99,111,110,115,116,114,117,99,116,111,114>>,
    <<95,95,100,101,102,105,110,101,71,101,116,116,101,114,95,95>>,
    <<95,95,100,101,102,105,110,101,83,101,116,116,101,114,95,95>>,
    <<104,97,115,79,119,110,80,114,111,112,101,114,116,121>>,
    <<95,95,108,111,111,107,117,112,71,101,116,116,101,114,95,95>>,
    <<95,95,108,111,111,107,117,112,83,101,116,116,101,114,95,95>>,
    <<105,115,80,114,111,116,111,116,121,112,101,79,102>>,
    <<112,114,111,112,101,114,116,121,73,115,69,110,117,109,101,114,97,98,108,101>>,
    <<116,111,83,116,114,105,110,103>>,
    <<118,97,108,117,101,79,102>>,
    <<95,95,112,114,111,116,111,95,95>>,
    <<116,111,76,111,99,97,108,101,83,116,114,105,110,103>> }

\* stands for an inherited function object where the code expects a number
FunctionObject == -1

\* this.vocab = { ...data.vocab, ...this.specialTokens }: own properties
HasVocab(d, t) == isSpecialToken(t) \/ t \in DOMAIN d.vocab

VocabOwn(d, t) == IF isSpecialToken(t) THEN SpecialId(t) ELSE d.vocab[t]

\* reverseVocab, filled from Object.entries(this.vocab): the special tokens
\* are the later entries and overwrite an equal id of data.vocab
HasReverseVocab(d, id) ==
    \/ \E i \in 1..Len(specialTokens) : specialTokens[i].id = id
    \/ \E t \in DOMAIN d.vocab : ~isSpecialToken(t) /\ d.vocab[t] = id

reverseVocab(d, id) ==
    IF \E i \in 1..Len(specialTokens) : specialTokens[i].id = id
    THEN specialTokens[CHOOSE i \in 1..Len(specialTokens) : specialTokens[i].id = id].token
    ELSE CHOOSE t \in DOMAIN d.vocab : ~isSpecialToken(t) /\ d.vocab[t] = id

\* data.merges.forEach((merge, index) => bpeRanks[merge] = index); a merge
\* "first second" is the pair <<first, second>>, index counts from 0;
\* -1 stands for undefined
bpeRanks(d, pair) ==
    IF Includes(d.merges, pair) THEN LastIndexOf(d.merges, pair) - 1 ELSE -1

\* ------------------------------------------------------------------------
\* The special-token table of the page component as the README gives it
\* ------------------------------------------------------------------------

\*   <|endoftext|> 100257
\*   <|fim_prefix|> 100258
\*   <|fim_middle|> 100259
\*   <|fim_suffix|> 100260
\*   <|im_start|> 100264
\*   <|im_end|> 100265
\*   <|im_sep|> 100266
pageSpecialTokens == <<
    [token |-> <<60,124,101,110,100,111,102,116,101,120,116,124,62>>, id |-> 100257],
    [token |-> <<60,124,102,105,109,95,112,114,101,102,105,120,124,62>>, id |-> 100258],
    [token |-> <<60,124,102,105,109,95,109,105,100,100,108,101,124,62>>, id |-> 100259],
    [token |-> <<60,124,102,105,109,95,115,117,102,102,105,120,124,62>>, id |-> 100260],
    [token |-> <<60,124,105,109,95,115,116,97,114,116,124,62>>, id |-> 100264],
    [token |-> <<60,124,105,109,95,101,110,100,124,62>>, id |-> 100265],
    [token |-> <<60,124,105,109,95,115,101,112,124,62>>, id |-> 100266] >>

\* ------------------------------------------------------------------------
\* The merges the page hands to the constructor
\* ------------------------------------------------------------------------

\* mergesText.split('\n')
RECURSIVE SplitNewlineFrom(_, _, _)
SplitNewlineFrom(s, i, start) ==
    IF i > Len(s) THEN <<Slice(s, start, Len(s))>>
    ELSE IF s[i] = 10
         THEN <<Slice(s, start, i - 1)>> \o SplitNewlineFrom(s, i + 1, i + 1)
         ELSE SplitNewlineFrom(s, i + 1, start)

SplitNewline(s) == SplitNewlineFrom(s, 1, 1)

\* '#version'
VersionPrefix == <<35,118,101,114,115,105,111,110>>

\* line => line.trim() && !line.startsWith('#version')
KeepLine(line) ==
    /\ \E i \in 1..Len(line) : ~IsSpace(line[i])
    /\ ~LiteralAt(line, 1, VersionPrefix)

\* .split('\n').filter(...).slice(1)
loadMerges(fileText) ==
    The({ IF Len(kept) = 0 THEN <<>> ELSE Tail(kept) :
          kept \in {SelectSeq(SplitNewline(fileText), KeepLine)} })

\* the pair whose key `${pair[0]} ${pair[1]}` is the line: glyph strings hold
\* no space, so a line with no space or several is the key of no pair
MergeOfLine(line) ==
    IF Cardinality({i \in 1..Len(line) : line[i] = 32}) = 1
    THEN The({ <<Slice(line, 1, i - 1), Slice(line, i + 1, Len(line))>> :
               i \in {j \in 1..Len(line) : line[j] = 32} })
    ELSE <<line, <<>>>>

\* data.merges as the pairs bpeRanks gives ranks to
MergePairs(lines) == [i \in 1..Len(lines) |-> MergeOfLine(lines[i])]

\* ------------------------------------------------------------------------
\* GPTTokenizer.bpe
\* ------------------------------------------------------------------------

\* getPairs(word)
getPairs(w) == [i \in 1..(Len(w) - 1) |-> <<w[i], w[i + 1]>>]

\* a variant: rank > minRank, the highest rank wins
LowerRankOff(rank, minRank) == minRank = -1 \/ rank > minRank

\* rank < minRank; minRank is -1 while it is Infinity
LowerRank(rank, minRank) == minRank = -1 \/ rank < minRank

\* for (const pair of pairs) { if (rank !== undefined && rank < minRank) ... };
\* <<>> stands for minPair === null
RECURSIVE MinPairFrom(_, _, _, _, _)
MinPairFrom(d, pairs, k, minPair, minRank) ==
    IF k > Len(pairs) THEN minPair
    ELSE LET rank == bpeRanks(d, pairs[k])
         IN  IF rank # -1 /\ LowerRank(rank, minRank)
             THEN MinPairFrom(d, pairs, k + 1, pairs[k], rank)
             ELSE MinPairFrom(d, pairs, k + 1, minPair, minRank)

MinPair(d, w) == MinPairFrom(d, getPairs(w), 1, <<>>, -1)

\* word.indexOf(first, i), 1-based; 0 when first does not occur from i on
RECURSIVE IndexOf(_, _, _)
IndexOf(w, x, i) ==
    IF i > Len(w) THEN 0
    ELSE IF w[i] = x THEN i
    ELSE IndexOf(w, x, i + 1)

\* the inner while loop of bpe: the new word for the pair <<first, second>>
RECURSIVE MergeFrom(_, _, _, _)
MergeFrom(w, first, second, i) ==
    IF i > Len(w) THEN <<>>
    ELSE LET j == IndexOf(w, first, i)
         IN  IF j = 0 THEN SubSeq(w, i, Len(w))
             ELSE Slice(w, i, j - 1) \o
                  (IF j + 1 <= Len(w) /\ w[j + 1] = second
                   THEN <<first \o second>> \o MergeFrom(w, first, second, j + 2)
                   ELSE <<w[j]>> \o MergeFrom(w, first, second, j + 1))

\* one iteration of while (true): [stop, pair, word]; stop is TRUE when the
\* loop is left (no pairs, no pair in the table, or one symbol is left)
BpeIteration(d, w) ==
    The({ IF Len(minPair) = 0
          THEN [stop |-> TRUE, pair |-> minPair, word |-> w]
          ELSE The({ [stop |-> Len(newWord) = 1, pair |-> minPair, word |-> newWord] :
                     newWord \in {MergeFrom(w, minPair[1], minPair[2], 1)} }) :
          minPair \in {MinPair(d, w)} })

RECURSIVE BpeLoop(_, _)
BpeLoop(d, w) ==
    The({ IF it.stop THEN it.word ELSE BpeLoop(d, it.word) : it \in {BpeIteration(d, w)} })

\* utf8Bytes.map(byte => this.byteEncoder[byte])
GlyphWord(chunk) ==
    The({ [i \in 1..Len(utf8Bytes) |-> <<byteEncoder[utf8Bytes[i]]>>] :
          utf8Bytes \in {TextEncode(chunk)} })

\* the word bpe computes on a cache miss
BpeMiss(d, chunk) ==
    The({ IF Len(w) <= 1 THEN w ELSE BpeLoop(d, w) : w \in {GlyphWord(chunk)} })

\* a variant: the byte-level word is stored, not the merged one
CacheStoreOff(c, chunk, w) == (chunk :> GlyphWord(chunk)) @@ c

\* this.cache[token] = word
CacheStore(c, chunk, w) == (chunk :> w) @@ c

\* bpe(token) on the cache c: [inherited, word, cache]. if (this.cache[token])
\* is true of an own entry (an array) and of a property of Object.prototype;
\* in the second case what bpe returns is that property, not an array
bpe(d, c, chunk) ==
    IF chunk \in DOMAIN c
    THEN [inherited |-> FALSE, word |-> c[chunk], cache |-> c]
    ELSE IF chunk \in ObjectPrototypeKeys
         THEN [inherited |-> TRUE, word |-> <<>>, cache |-> c]
         ELSE The({ [inherited |-> FALSE, word |-> w, cache |-> CacheStore(c, chunk, w)] :
                    w \in {BpeMiss(d, chunk)} })

\* ------------------------------------------------------------------------
\* GPTTokenizer: tokenize, encode, decode, formatChatMessages
\* ------------------------------------------------------------------------

\* the loop over parts and matches that tokenize and encode share, flattened:
\* a special part is one item, a plain part one item per pattern match
RECURSIVE PartItems(_, _)
PartItems(ps, k) ==
    IF k > Len(ps) THEN <<>>
    ELSE (IF ps[k].isSpecial
          THEN << ps[k] >>
          ELSE The({ [i \in 1..Len(ms) |-> [text |-> ms[i], isSpecial |-> FALSE]] :
                     ms \in {MatchAll(ps[k].text)} }))
         \o PartItems(ps, k + 1)

\* allTokens.push(...bpeTokens) throws a TypeError when bpeTokens is not
\* iterable, which leaves the cache as the earlier chunks made it
RECURSIVE TokenizeItems(_, _, _, _, _, _)
TokenizeItems(d, c, items, k, acc, nhits) ==
    IF k > Len(items)
    THEN [threw |-> FALSE, value |-> acc, cache |-> c, hits |-> nhits]
    ELSE IF items[k].isSpecial
         THEN The({ TokenizeItems(d, c, items, k + 1, a, nhits) :
                    a \in {Append(acc, items[k].text)} })
         ELSE The({ IF r.inherited
                    THEN [threw |-> TRUE, value |-> <<>>, cache |-> r.cache, hits |-> n]
                    ELSE TokenizeItems(d, r.cache, items, k + 1, a \o r.word, n) :
                    <<r, a, n>> \in {<<bpe(d, c, items[k].text), acc,
                                       IF items[k].text \in DOMAIN c
                                       THEN nhits + 1 ELSE nhits>>} })

\* tokenize(text) on the cache c
tokenize(d, c, s) ==
    The({ The({ TokenizeItems(d, c, items, 1, <<>>, 0) : items \in {PartItems(ps, 1)} }) :
          ps \in {splitBySpecialTokens(s)} })

EndOfText == <<60,124,101,110,100,111,102,116,101,120,116,124,62>>

\* const id = this.vocab[token]; if (id === undefined) return this.vocab['<|endoftext|>'] || 0
IdOf(d, t) ==
    IF HasVocab(d, t) THEN VocabOwn(d, t)
    ELSE IF t \in ObjectPrototypeKeys THEN FunctionObject
    ELSE SpecialId(EndOfText)

\* encode(text) on the cache c
encode(d, c, s) ==
    The({ [r EXCEPT !.value = [i \in 1..Len(r.value) |-> IdOf(d, r.value[i])]] :
          r \in {tokenize(d, c, s)} })

\* for (const char of token) { byte = byteDecoder[char]; if (byte !== undefined) bytes.push(byte) }
RECURSIVE TokenBytes(_)
TokenBytes(t) ==
    IF t = <<>> THEN <<>>
    ELSE (IF Head(t) \in DOMAIN byteDecoder THEN <<byteDecoder[Head(t)]>> ELSE <<>>)
         \o TokenBytes(Tail(t))

\* the body of for (const token of tokens): what one token adds to result
DecodeToken(t) ==
    IF isSpecialToken(t) THEN t ELSE The({ TextDecode(bytes) : bytes \in {TokenBytes(t)} })

\* a variant: an id that reverseVocab does not have becomes <|endoftext|>
TokenOfIdOff(d, id) == IF HasReverseVocab(d, id) THEN reverseVocab(d, id) ELSE EndOfText

\* the callback of tokenIds.map: an id that reverseVocab does not have becomes ''
TokenOfId(d, id) == IF HasReverseVocab(d, id) THEN reverseVocab(d, id) ELSE <<>>

\* decode(tokenIds) from the k-th id on
RECURSIVE DecodeFrom(_, _, _)
DecodeFrom(d, ids, k) ==
    IF k > Len(ids) THEN <<>>
    ELSE The({ DecodeToken(t) : t \in {TokenOfId(d, ids[k])} })
         \o DecodeFrom(d, ids, k + 1)

decode(d, ids) == DecodeFrom(d, ids, 1)

ImStart == <<60,124,105,109,95,115,116,97,114,116,124,62>>
ImEnd == <<60,124,105,109,95,101,110,100,124,62>>
ImSep == <<60,124,105,109,95,115,101,112,124,62>>

\* formatChatMessages(systemText, userText) with useNewFormat = false:
\* <|im_start|>system\n${s}<|im_end|>\n<|im_start|>user\n${u}<|im_end|>\n<|im_start|>assistant\n
formatChatMessages(s, u) ==
    ImStart \o <<115,121,115,116,101,109,10>> \o s \o ImEnd \o <<10>>
        \o ImStart \o <<117,115,101,114,10>> \o u \o ImEnd \o <<10>>
        \o ImStart \o <<97,115,115,105,115,116,97,110,116,10>>

\* ------------------------------------------------------------------------
\* Inputs: tokenizer data (vocab.json, merges.txt) and texts
\* ------------------------------------------------------------------------

MaxPieces == 3
MaxChatPieces == 1
MaxIds == 3
MaxChunkLen == 4
MaxSegPieces == 3
MaxCalls == 3
MaxCorpusPieces == 3
MaxExtra == 10
MaxTrainCalls == 2
MaxLoads == 1
MaxBatch == 2
MaxFileLines == 3

\* the glyph token of a byte
G(b) == <<byteEncoder[b]>>

\* merge rules over the glyphs of a, b, c, space and the two bytes of U+00E9:
\* rank 0 " a", 1 "a a", 2 "b c", 3 the bytes of U+00E9, 4 "aa a", 5 "a b"
MergesA == << <<G(32), G(97)>>, <<G(97), G(97)>>, <<G(98), G(99)>>,
              <<G(195), G(169)>>, <<G(97) \o G(97), G(97)>>, <<G(97), G(98)>> >>

\* the same with rank 6 "a bc"
MergesB == MergesA \o << <<G(97), G(98) \o G(99)>> >>

\* a vocabulary with every byte glyph and every merged string of the merges
FullVocab(merges) ==
    LET mergedTokens == {merges[i][1] \o merges[i][2] : i \in 1..Len(merges)}
    IN  [t \in {G(b) : b \in 0..255} \cup mergedTokens |->
            IF Len(t) = 1 /\ t[1] \in DOMAIN byteDecoder THEN byteDecoder[t[1]]
            ELSE 255 + (CHOOSE i \in 1..Len(merges) :
                            /\ merges[i][1] \o merges[i][2] = t
                            /\ \A j \in 1..(i - 1) : merges[j][1] \o merges[j][2] # t)]

TokenizerData(merges) == [vocab |-> FullVocab(merges), merges |-> merges]

Datas == {TokenizerData(<<>>), TokenizerData(MergesA), TokenizerData(MergesB)}

\* merge rules that build "valueOf" from its letters, and "b c"
MergesV ==
    << <<G(118), G(97)>>, <<G(118) \o G(97), G(108)>>,
       <<<<118,97,108>>, G(117)>>, <<<<118,97,108,117>>, G(101)>>,
       <<<<118,97,108,117,101>>, G(79)>>, <<<<118,97,108,117,101,79>>, G(102)>>,
       <<G(98), G(99)>> >>

\* "a b" with a plain space, which is no byte glyph
NoGlyphToken == <<97,32,98>>

NoGlyphId == 400

\* a vocab.json that does not fit its merges.txt: it lacks the merged strings
\* "valueOf" and "bc" and holds a token with a character that is no glyph
PartialVocab ==
    [t \in (DOMAIN FullVocab(MergesV) \ {<<118,97,108,117,101,79,102>>, <<98,99>>})
            \cup {NoGlyphToken} |->
        IF t = NoGlyphToken THEN NoGlyphId ELSE FullVocab(MergesV)[t]]

PartialData == [vocab |-> PartialVocab, merges |-> MergesV]

\* all concatenations of at most n pieces
RECURSIVE Concats(_, _)
Concats(pieces, n) ==
    IF n = 0 THEN {<<>>}
    ELSE LET shorter == Concats(pieces, n - 1)
         IN  shorter \cup {t \o p : t \in shorter, p \in pieces}

\* texts given to one call of encode / tokenize: a, b, c, space, U+00E9,
\* two special-token literals and a word that names a property of
\* Object.prototype; and the text of the special-token example
TextPieces == {<<97>>, <<98>>, <<99>>, <<32>>, <<233>>, ImEnd, ImSep,
               <<99,111,110,115,116,114,117,99,116,111,114>>}

AtomicityExample ==
    ImStart \o <<115,121,115,116,101,109>> \o ImSep \o <<72,101,108,108,111>> \o ImEnd

Texts == Concats(TextPieces, MaxPieces) \cup {AtomicityExample}

\* system and user texts of the page
ChatPieces == {<<97>>, <<32>>, <<233>>, <<99,111,110,115,116,114,117,99,116,111,114>>}

ChatTexts == Concats(ChatPieces, MaxChatPieces)

\* ids given to decode: the two bytes of U+00E9, a, their merge (known only
\* with MergesA/B), <|im_end|>, and an id no vocabulary has
DecodeIds == {195, 169, 97, 259, 100265, 99999}

IdLists == Concats({<<i>> : i \in DecodeIds}, MaxIds)

\* texts given to the splitter and to the pattern: a letter, s (contraction),
\* a digit, space, newline, apostrophe, U+00E9, a special-token literal and
\* two fragments of one (punctuation and letters)
SegPieces == {<<97>>, <<115>>, <<49>>, <<32>>, <<10>>, <<39>>, <<233>>,
              ImEnd, <<60,124>>, <<60,124,105,109,95,101,110,100,124>>}

SegTexts == Concats(SegPieces, MaxSegPieces)

\* chunks given to bpe: an optional space and letters of a, b, c, U+00E9
RECURSIVE Words(_, _)
Words(letters, n) ==
    IF n = 0 THEN {<<>>}
    ELSE LET shorter == Words(letters, n - 1)
         IN  shorter \cup {Append(w, l) : w \in shorter, l \in letters}

BpeLetters == {97, 98, 99, 233}

BpeChunks ==
    LET ws == Words(BpeLetters, MaxChunkLen) \ {<<>>}
    IN  ws \cup {<<32>> \o w : w \in ws}

\* texts of the calls made one after the other on one instance: they share chunks
CacheTexts == {
    <<97,98,99>>,                              \* abc
    <<97,98,99,32,97,98,99>>,                  \* abc abc
    <<32,97,98,99>>,                           \* (space)abc
    ImEnd \o <<97,98,99>>,                     \* <|im_end|>abc
    <<233,32,97,97,97>>,                       \* U+00E9 aaa
    <<97,97,97>>,                              \* aaa
    <<99,111,110,115,116,114,117,99,116,111,114>>,            \* constructor
    <<97,98,99,32,99,111,110,115,116,114,117,99,116,111,114>> \* abc constructor
    }

\* ------------------------------------------------------------------------
\* Initial values of the variables a specification does not use
\* ------------------------------------------------------------------------

\* ------------------------------------------------------------------------
\* GPT4Tokenizer, the trainer
\* ------------------------------------------------------------------------

\* A Map: its entries [key, value] in insertion order
MapHas(m, k) == \E i \in 1..Len(m) : m[i].key = k

MapGet(m, k) == m[CHOOSE i \in 1..Len(m) : m[i].key = k].value

\* m.get(k) || 0
MapGetOrZero(m, k) == IF MapHas(m, k) THEN MapGet(m, k) ELSE 0

\* m.set(k, v): a present key keeps its place
MapSet(m, k, v) ==
    IF MapHas(m, k)
    THEN [i \in 1..Len(m) |-> IF m[i].key = k THEN [key |-> k, value |-> v] ELSE m[i]]
    ELSE Append(m, [key |-> k, value |-> v])

\* bytesToUnicode(): cs.map(c => String.fromCharCode(c)), in the order of bs
bytesToUnicode == [i \in 1..256 |-> <<FromCharCode(ByteTables.cs[i])>>]

\* for (i = 0; i < 256; i++) this.vocab.set(this.bytesToUnicode()[i], i);
\* the 256 glyphs differ, so every set appends
ByteVocab == [i \in 1..256 |-> [key |-> bytesToUnicode[i], value |-> i - 1]]

specialTokensList == <<EndOfText, ImStart, ImEnd, ImSep>>

\* addSpecialTokens() on the trainer tr, from the k-th token of the list
RECURSIVE AddSpecialTokensFrom(_, _)
AddSpecialTokensFrom(tr, k) ==
    IF k > Len(specialTokensList) THEN tr
    ELSE The({ AddSpecialTokensFrom(next, k + 1) :
               next \in {[tr EXCEPT
                   !.specialTokens = MapSet(@, specialTokensList[k], tr.nextTokenId),
                   !.vocab = MapSet(@, specialTokensList[k], tr.nextTokenId),
                   !.nextTokenId = @ + 1]} })

\* new GPT4Tokenizer()
NewTrainer ==
    AddSpecialTokensFrom([vocab |-> ByteVocab, merges |-> <<>>, specialTokens |-> <<>>,
                          nextTokenId |-> 256], 1)

\* getPairs(word) of the trainer: a Set, so each pair once, in order of first occurrence
RECURSIVE TrainerPairsFrom(_, _, _)
TrainerPairsFrom(w, i, pairs) ==
    IF i > Len(w) THEN pairs
    ELSE The({ TrainerPairsFrom(w, i + 1, next) :
               next \in {IF Includes(pairs, <<w[i - 1], w[i]>>) THEN pairs
                         ELSE Append(pairs, <<w[i - 1], w[i]>>)} })

trainerGetPairs(w) == TrainerPairsFrom(w, 2, <<>>)

\* pairs.set(pair, (pairs.get(pair) || 0) + freq) for the pairs of one word
RECURSIVE AddWordPairs(_, _, _, _)
AddWordPairs(pairs, wordPairs, k, freq) ==
    IF k > Len(wordPairs) THEN pairs
    ELSE The({ AddWordPairs(next, wordPairs, k + 1, freq) :
               next \in {MapSet(pairs, wordPairs[k], MapGetOrZero(pairs, wordPairs[k]) + freq)} })

RECURSIVE StatsFrom(_, _, _)
StatsFrom(freqs, k, pairs) ==
    IF k > Len(freqs) THEN pairs
    ELSE The({ StatsFrom(freqs, k + 1, next) :
               next \in {The({ AddWordPairs(pairs, wordPairs, 1, freqs[k].value) :
                               wordPairs \in {trainerGetPairs(freqs[k].key)} })} })

\* getStats(vocab)
getStats(freqs) == StatsFrom(freqs, 1, <<>>)

\* the loop over a word in mergeBestPair, writing the symbol newSymbol
RECURSIVE MergeWordFrom(_, _, _, _, _)
MergeWordFrom(symbol, first, second, newSymbol, i) ==
    IF i > Len(symbol) THEN <<>>
    ELSE IF i < Len(symbol) /\ symbol[i] = first /\ symbol[i + 1] = second
         THEN <<newSymbol>> \o MergeWordFrom(symbol, first, second, newSymbol, i + 2)
         ELSE <<symbol[i]>> \o MergeWordFrom(symbol, first, second, newSymbol, i + 1)

RECURSIVE MergeBestPairFrom(_, _, _, _, _)
MergeBestPairFrom(freqs, bestPair, nextId, k, newVocab) ==
    IF k > Len(freqs) THEN newVocab
    ELSE The({ MergeBestPairFrom(freqs, bestPair, nextId, k + 1, next) :
               next \in {MapSet(newVocab,
                                MergeWordFrom(freqs[k].key, bestPair[1], bestPair[2],
                                              nextId - 1, 1),
                                freqs[k].value)} })

\* a variant: the table is returned as it was
mergeBestPairOff(freqs, bestPair, nextId) == freqs

\* mergeBestPair(vocab, bestPair) while this.nextTokenId is nextId
mergeBestPair(freqs, bestPair, nextId) == MergeBestPairFrom(freqs, bestPair, nextId, 1, <<>>)

\* the frequency table of the chunks: vocab.set(key, (vocab.get(key) || 0) + 1)
RECURSIVE CountChunks(_, _, _)
CountChunks(cs, k, freqs) ==
    IF k > Len(cs) THEN freqs
    ELSE The({ CountChunks(cs, k + 1, next) :
               next \in {The({ MapSet(freqs, bytes, MapGetOrZero(freqs, bytes) + 1) :
                               bytes \in {TextEncode(cs[k])} })} })

\* a variant: a later pair with the same count replaces the earlier one
RECURSIVE BestPairFromOff(_, _, _, _)
BestPairFromOff(pairs, k, bestPair, maxCount) ==
    IF k > Len(pairs) THEN [pair |-> bestPair, count |-> maxCount]
    ELSE IF pairs[k].value >= maxCount
         THEN BestPairFromOff(pairs, k + 1, pairs[k].key, pairs[k].value)
         ELSE BestPairFromOff(pairs, k + 1, bestPair, maxCount)

\* for (const [pair, count] of pairs) if (count > maxCount) { ... }
RECURSIVE BestPairFrom(_, _, _, _)
BestPairFrom(pairs, k, bestPair, maxCount) ==
    IF k > Len(pairs) THEN [pair |-> bestPair, count |-> maxCount]
    ELSE IF pairs[k].value > maxCount
         THEN BestPairFrom(pairs, k + 1, pairs[k].key, pairs[k].value)
         ELSE BestPairFrom(pairs, k + 1, bestPair, maxCount)

\* the decimal digits of n, as `${n}` writes them
RECURSIVE ToDecimal(_)
ToDecimal(n) == IF n < 10 THEN <<48 + n>> ELSE ToDecimal(n \div 10) \o <<48 + (n % 10)>>

\* `merge_${bestPair.replace(',', '_')}` for the pair "first,second"
MergeKey(bestPair) ==
    <<109,101,114,103,101,95>> \o ToDecimal(bestPair[1]) \o <<95>> \o ToDecimal(bestPair[2])

\* Steps 1 and 2 of train: the chunks of the text and their frequency table
TrainTable(t) == The({ CountChunks(cs, 1, <<>>) : cs \in {Gpt4MatchAll(t)} })

\* while (this.vocab.size < vocabSize)
\* a variant: the special tokens are not counted
LoopConditionOff(tr, size) == Len(tr.vocab) - Len(tr.specialTokens) < size
\* a variant: one more pass when the vocabulary has reached the size
LoopConditionLe(tr, size) == Len(tr.vocab) <= size

LoopCondition(tr, size) == Len(tr.vocab) < size

\* one pass of while (this.vocab.size < vocabSize) on the trainer tr and the
\* frequency table freqs: stop tells that the loop was left
TrainIteration(tr, freqs, size) ==
    IF ~LoopCondition(tr, size)
    THEN [stop |-> TRUE, reason |-> "target", tr |-> tr, freqs |-> freqs]
    ELSE The({
        IF Len(pairs) = 0
        THEN [stop |-> TRUE, reason |-> "nopairs", tr |-> tr, freqs |-> freqs]
        ELSE The({
            IF best.count < 2
            THEN [stop |-> TRUE, reason |-> "threshold", tr |-> tr, freqs |-> freqs]
            ELSE [stop |-> FALSE, reason |-> "none",
                  tr |-> [tr EXCEPT
                      !.merges = MapSet(@, best.pair, tr.nextTokenId),
                      !.vocab = MapSet(@, MergeKey(best.pair), tr.nextTokenId),
                      !.nextTokenId = @ + 1],
                  freqs |-> mergeBestPair(freqs, best.pair, tr.nextTokenId)] :
            best \in {BestPairFrom(pairs, 1, <<>>, 0)} }) :
        pairs \in {getStats(freqs)} })

\* the whole loop
RECURSIVE TrainLoop(_, _, _)
TrainLoop(tr, freqs, size) ==
    The({ IF it.stop THEN it.tr ELSE TrainLoop(it.tr, it.freqs, size) :
          it \in {TrainIteration(tr, freqs, size)} })

\* the loop of performBPEMerging is the loop of train, copied
PerformIteration(tr, freqs, size) == TrainIteration(tr, freqs, size)

\* one pass of the loop of fastTrain:
\* while (this.vocab.size < vocabSize && mergeCount < maxMerges). The table is
\* declared const vocab and the pass assigns to it: where the build keeps the
\* const (constKept), vocab = this.mergeBestPair(...) throws a TypeError after
\* merges.set and vocab.set and before this.nextTokenId++; where the build
\* emits a var for it, the assignment is made
FastTrainIteration(tr, freqs, size, count, maxMerges, constKept) ==
    IF ~(Len(tr.vocab) < size /\ count < maxMerges)
    THEN [stop |-> TRUE, reason |-> "target", tr |-> tr, freqs |-> freqs]
    ELSE The({
        IF Len(pairs) = 0
        THEN [stop |-> TRUE, reason |-> "nopairs", tr |-> tr, freqs |-> freqs]
        ELSE The({
            IF best.count < 3
            THEN [stop |-> TRUE, reason |-> "threshold", tr |-> tr, freqs |-> freqs]
            ELSE IF constKept
            THEN [stop |-> TRUE, reason |-> "exception",
                  tr |-> [tr EXCEPT
                      !.merges = MapSet(@, best.pair, tr.nextTokenId),
                      !.vocab = MapSet(@, MergeKey(best.pair), tr.nextTokenId)],
                  freqs |-> freqs]
            ELSE [stop |-> FALSE, reason |-> "none",
                  tr |-> [tr EXCEPT
                      !.merges = MapSet(@, best.pair, tr.nextTokenId),
                      !.vocab = MapSet(@, MergeKey(best.pair), tr.nextTokenId),
                      !.nextTokenId = @ + 1],
                  freqs |-> mergeBestPair(freqs, best.pair, tr.nextTokenId)] :
            best \in {BestPairFrom(pairs, 1, <<>>, 0)} }) :
        pairs \in {getStats(freqs)} })

\* for await (const line of rl): the lines of the file, ended by \n, \r\n or \r
RECURSIVE ReadLinesFrom(_, _, _)
ReadLinesFrom(s, i, start) ==
    IF i > Len(s)
    THEN IF start <= Len(s) THEN <<SubSeq(s, start, Len(s))>> ELSE <<>>
    ELSE IF s[i] = 13 /\ i < Len(s) /\ s[i + 1] = 10
         THEN <<Slice(s, start, i - 1)>> \o ReadLinesFrom(s, i + 2, i + 2)
         ELSE IF s[i] = 10 \/ s[i] = 13
              THEN <<Slice(s, start, i - 1)>> \o ReadLinesFrom(s, i + 1, i + 1)
              ELSE ReadLinesFrom(s, i + 1, start)

ReadLines(s) == ReadLinesFrom(s, 1, 1)

\* processBatch(text, vocab)
processBatch(t, freqs) == The({ CountChunks(cs, 1, freqs) : cs \in {Gpt4MatchAll(t)} })

\* Step 1 of trainFromFile from the k-th line on
RECURSIVE FileTableFrom(_, _, _, _, _, _)
FileTableFrom(lines, k, batchText, linesInBatch, bsize, freqs) ==
    IF k > Len(lines)
    THEN IF batchText # <<>> THEN processBatch(batchText, freqs) ELSE freqs
    ELSE The({
        IF n >= bsize
        THEN The({ FileTableFrom(lines, k + 1, <<>>, 0, bsize, next) :
                   next \in {processBatch(bt, freqs)} })
        ELSE FileTableFrom(lines, k + 1, bt, n, bsize, freqs) :
        <<bt, n>> \in {<<batchText \o lines[k] \o <<10>>, linesInBatch + 1>>} })

\* the frequency table trainFromFile builds from the file's text
FileTable(t, bsize) ==
    The({ FileTableFrom(lines, 1, <<>>, 0, bsize, <<>>) : lines \in {ReadLines(t)} })

\* value of a string of decimal digits
RECURSIVE FromDecimal(_)
FromDecimal(k) ==
    IF k = <<>> THEN 0 ELSE 10 * FromDecimal(SubSeq(k, 1, Len(k) - 1)) + (k[Len(k)] - 48)

\* a property key that is an array index: the canonical decimal string of an
\* integer (keys of ten digits or more do not occur in a vocabulary)
IsArrayIndex(k) ==
    /\ Len(k) \in 1..9
    /\ \A i \in 1..Len(k) : k[i] \in 48..57
    /\ Len(k) = 1 \/ k[1] # 48

\* the entries of m whose keys are array indices, in ascending order of the index
RECURSIVE IndexEntriesFrom(_, _)
IndexEntriesFrom(m, done) ==
    IF \A i \in 1..Len(m) : ~IsArrayIndex(m[i].key) \/ i \in done THEN <<>>
    ELSE The({ <<m[i]>> \o IndexEntriesFrom(m, done \cup {i}) :
               i \in { j \in 1..Len(m) :
                   /\ IsArrayIndex(m[j].key) /\ j \notin done
                   /\ \A h \in 1..Len(m) :
                          (IsArrayIndex(m[h].key) /\ h \notin done)
                              => FromDecimal(m[j].key) <= FromDecimal(m[h].key) } })

\* Object.entries(JSON.parse(JSON.stringify(Object.fromEntries(map)))) for a
\* map with string keys: array-index keys first, in ascending order, then the
\* other keys in insertion order
ObjectEntries(m) ==
    IndexEntriesFrom(m, {})
        \o SelectSeq(m, LAMBDA e : ~IsArrayIndex(e.key))

\* save(directory): the three files of the directory. The keys of the merge
\* table ("a,b") and of the special tokens are never array indices
SaveDir(tr) ==
    [vocab |-> ObjectEntries(tr.vocab), merges |-> tr.merges,
     specialTokens |-> tr.specialTokens]

\* load(directory): the three fields are assigned in turn, each after its
\* file was read; readFileSync throws at the failAt-th file when it is
\* missing (failAt = 0: all three are there). nextTokenId is not assigned
load(tr, dir, failAt) ==
    [tr EXCEPT
        !.vocab = IF failAt = 1 THEN @ ELSE ObjectEntries(dir.vocab),
        !.merges = IF failAt \in {1, 2} THEN @ ELSE dir.merges,
        !.specialTokens = IF failAt \in {1, 2, 3} THEN @ ELSE dir.specialTokens]

\* applyMerge(tokens, first, second, newToken)
RECURSIVE ApplyMergeFrom(_, _, _, _, _)
ApplyMergeFrom(tokens, first, second, newToken, i) ==
    IF i > Len(tokens) THEN <<>>
    ELSE IF i < Len(tokens) /\ tokens[i] = first /\ tokens[i + 1] = second
         THEN <<newToken>> \o ApplyMergeFrom(tokens, first, second, newToken, i + 2)
         ELSE <<tokens[i]>> \o ApplyMergeFrom(tokens, first, second, newToken, i + 1)

applyMerge(tokens, first, second, newToken) == ApplyMergeFrom(tokens, first, second, newToken, 1)

\* Array.from(this.merges.entries()).sort((a, b) => a[1] - b[1]): stable, by id
RECURSIVE InsertById(_, _)
InsertById(sorted, x) ==
    IF sorted = <<>> THEN <<x>>
    ELSE IF Head(sorted).value <= x.value
         THEN <<Head(sorted)>> \o InsertById(Tail(sorted), x)
         ELSE <<x>> \o sorted

RECURSIVE SortById(_, _)
SortById(entries, k) ==
    IF k = 0 THEN <<>>
    ELSE The({ InsertById(sorted, entries[k]) : sorted \in {SortById(entries, k - 1)} })

sortedMerges(tr) == SortById(tr.merges, Len(tr.merges))

\* for (const [pairKey, newToken] of sortedMerges) tokens = this.applyMerge(...)
RECURSIVE ApplyMerges(_, _, _)
ApplyMerges(tokens, sorted, k) ==
    IF k > Len(sorted) THEN tokens
    ELSE The({ ApplyMerges(next, sorted, k + 1) :
               next \in {applyMerge(tokens, sorted[k].key[1], sorted[k].key[2],
                                    sorted[k].value)} })

\* the body of for (const chunk of chunks) in the trainer's encode
TrainerChunkTokens(tr, sorted, chunk) ==
    IF MapHas(tr.specialTokens, chunk) THEN <<MapGet(tr.specialTokens, chunk)>>
    ELSE The({ ApplyMerges(bytes, sorted, 1) : bytes \in {TextEncode(chunk)} })

RECURSIVE TrainerEncodeFrom(_, _, _, _)
TrainerEncodeFrom(tr, sorted, cs, k) ==
    IF k > Len(cs) THEN <<>>
    ELSE TrainerChunkTokens(tr, sorted, cs[k]) \o TrainerEncodeFrom(tr, sorted, cs, k + 1)

\* GPT4Tokenizer.encode(text)
trainerEncode(tr, t) ==
    The({ TrainerEncodeFrom(tr, sorted, cs, 1) :
          <<sorted, cs>> \in {<<sortedMerges(tr), Gpt4MatchAll(t)>>} })

NoResult == [threw |-> FALSE, value |-> <<>>]

CodecIdle == byte = 0 /\ glyph = 0 /\ back = 0
SplitIdle == parts = <<>> /\ chunks = <<>>
BpeIdle == token = <<>> /\ word = <<>> /\ merged = <<>> /\ bpePc = "idle"
CallIdle == /\ calls = 0 /\ op = None /\ text = <<>> /\ tokenIds = <<>> /\ out = NoResult
            /\ hits = 0 /\ systemText = <<>> /\ userText = <<>> /\ isVerified = FALSE
            /\ loading = FALSE /\ mergesText = <<>>

codecVars == <<byte, glyph, back>>
splitVars == <<parts, chunks>>
bpeVars == <<token, word, merged, bpePc>>
pageVars == <<systemText, userText, isVerified, loading, mergesText>>
trainerFields == <<trainerVocab, trainerMerges, trainerSpecials, nextTokenId>>
trainCallVars == <<corpus, vocabSize, trainKind, trainCalls, vocabBefore>>
trainerVars == <<trainerFields, trainCallVars, wordFreqs, trainPc, trainEnd, loads,
                 mergeCount, trainerText, trainerOut>>

\* the trainer as new GPT4Tokenizer() leaves it, train and encode not yet called
TrainerIdle ==
    /\ trainerVocab = NewTrainer.vocab /\ trainerMerges = NewTrainer.merges
    /\ trainerSpecials = NewTrainer.specialTokens /\ nextTokenId = NewTrainer.nextTokenId
    /\ corpus = <<>> /\ vocabSize = 0 /\ wordFreqs = <<>> /\ trainPc = "new"
    /\ trainKind = None /\ trainEnd = None /\ trainCalls = 0 /\ loads = 0 /\ vocabBefore = 0
    /\ mergeCount = 0
    /\ trainerText = <<>> /\ trainerOut = <<>>

\* ------------------------------------------------------------------------
\* Spec: one call on a freshly constructed GPTTokenizer
\* ------------------------------------------------------------------------

Init ==
    /\ data \in Datas
    /\ cache = <<>>
    /\ CallIdle /\ CodecIdle /\ SplitIdle /\ BpeIdle /\ TrainerIdle

\* encode(t)
Encode(t) ==
    \E r \in {encode(data, cache, t)} :
        /\ op' = "encode" /\ text' = t
        /\ out' = [threw |-> r.threw, value |-> r.value]
        /\ cache' = r.cache /\ hits' = r.hits
        /\ calls' = calls + 1
        /\ UNCHANGED <<data, tokenIds, codecVars, splitVars, bpeVars, pageVars, trainerVars>>

\* tokenize(t)
Tokenize(t) ==
    \E r \in {tokenize(data, cache, t)} :
        /\ op' = "tokenize" /\ text' = t
        /\ out' = [threw |-> r.threw, value |-> r.value]
        /\ cache' = r.cache /\ hits' = r.hits
        /\ calls' = calls + 1
        /\ UNCHANGED <<data, tokenIds, codecVars, splitVars, bpeVars, pageVars, trainerVars>>

\* decode(ids)
Decode(ids) ==
    /\ op' = "decode" /\ tokenIds' = ids
    /\ out' = [threw |-> FALSE, value |-> decode(data, ids)]
    /\ calls' = calls + 1
    /\ UNCHANGED <<data, cache, text, hits, codecVars, splitVars, bpeVars, pageVars, trainerVars>>

\* the effect of the page on [systemText, userText, tokenizer]: format,
\* tokenize, encode, decode, setIsVerified(formattedText === decoded); an
\* exception is caught and sets isVerified to false
Verify(s, u) ==
    /\ s # <<>> \/ u # <<>>
    /\ \E formattedText \in {formatChatMessages(s, u)} :
       \E newTokens \in {tokenize(data, cache, formattedText)} :
       \E newTokenIds \in {encode(data, newTokens.cache, formattedText)} :
       \E threw \in {newTokens.threw \/ newTokenIds.threw} :
       \E decoded \in {IF threw THEN <<>> ELSE decode(data, newTokenIds.value)} :
           /\ op' = "verify" /\ systemText' = s /\ userText' = u
           /\ text' = formattedText
           /\ tokenIds' = IF threw THEN <<>> ELSE newTokenIds.value
           /\ out' = [threw |-> threw, value |-> decoded]
           /\ isVerified' = (~threw /\ formattedText = decoded)
           /\ cache' = IF newTokens.threw THEN newTokens.cache ELSE newTokenIds.cache
           /\ hits' = IF newTokens.threw THEN newTokens.hits ELSE newTokenIds.hits
           /\ calls' = calls + 1
           /\ UNCHANGED <<data, loading, mergesText, codecVars, splitVars, bpeVars,
                          trainerVars>>

Next ==
    \/ \E t \in Texts : calls = 0 /\ Encode(t)
    \/ \E t \in Texts : calls = 0 /\ Tokenize(t)
    \/ \E ids \in IdLists : calls = 0 /\ Decode(ids)
    \/ \E s \in ChatTexts, u \in ChatTexts : calls = 0 /\ Verify(s, u)

Spec == Init /\ [][Next]_vars

\* ------------------------------------------------------------------------
\* SpecVocab: one call on a tokenizer whose vocabulary does not fit its merges
\* ------------------------------------------------------------------------

\* texts: a, "bc", " valueOf", space
VocabTexts ==
    Concats({<<97>>, <<98,99>>, <<32,118,97,108,117,101,79,102>>, <<32>>}, MaxPieces)

\* ids: a, the token that holds no glyph, the first byte of U+00E9 alone, its
\* second byte, an id no vocabulary has
VocabIdLists == Concats({<<i>> : i \in {97, NoGlyphId, 195, 169, 99999}}, MaxIds)

InitVocab ==
    /\ data \in {PartialData}
    /\ cache = <<>>
    /\ CallIdle /\ CodecIdle /\ SplitIdle /\ BpeIdle /\ TrainerIdle

NextVocab ==
    \/ \E t \in VocabTexts : calls = 0 /\ Encode(t)
    \/ \E t \in VocabTexts : calls = 0 /\ Tokenize(t)
    \/ \E ids \in VocabIdLists : calls = 0 /\ Decode(ids)

SpecVocab == InitVocab /\ [][NextVocab]_vars

\* ------------------------------------------------------------------------
\* SpecCache: up to MaxCalls calls of encode and tokenize on one instance
\* ------------------------------------------------------------------------

NextCache ==
    \/ \E t \in CacheTexts : calls < MaxCalls /\ Encode(t)
    \/ \E t \in CacheTexts : calls < MaxCalls /\ Tokenize(t)

SpecCache == Init /\ [][NextCache]_vars

\* ------------------------------------------------------------------------
\* SpecBpe: the loop of GPTTokenizer.bpe on one chunk, one iteration a step
\* ------------------------------------------------------------------------

\* chunks that name a property of Object.prototype: constructor, valueOf
BpeInheritedChunks ==
    {<<99,111,110,115,116,114,117,99,116,111,114>>, <<118,97,108,117,101,79,102>>}

InitBpe ==
    /\ data \in Datas
    /\ cache = <<>>
    /\ token \in BpeChunks \cup BpeInheritedChunks
    /\ word = <<>> /\ merged = <<>> /\ bpePc = "start"
    /\ CallIdle /\ CodecIdle /\ SplitIdle /\ TrainerIdle

\* the cache miss, the byte-level word and if (word.length <= 1) return
BpeEnter ==
    /\ bpePc = "start"
    /\ token \notin DOMAIN cache /\ token \notin ObjectPrototypeKeys
    /\ word' = GlyphWord(token)
    /\ IF Len(word') <= 1
       THEN bpePc' = "done" /\ cache' = CacheStore(cache, token, word')
       ELSE bpePc' = "loop" /\ cache' = cache
    /\ UNCHANGED <<token, merged, data, calls, op, text, tokenIds, out, hits,
                   codecVars, splitVars, pageVars, trainerVars>>

\* if (this.cache[token]) return this.cache[token]: an own entry of the
\* cache, or a property the cache object inherits, which is not a word
BpeHit ==
    /\ bpePc = "start"
    /\ token \in DOMAIN cache \/ token \in ObjectPrototypeKeys
    /\ \E r \in {bpe(data, cache, token)} :
           /\ word' = r.word
           /\ bpePc' = IF r.inherited THEN "inherited" ELSE "done"
           /\ cache' = r.cache
    /\ UNCHANGED <<token, merged, data, calls, op, text, tokenIds, out, hits,
                   codecVars, splitVars, pageVars, trainerVars>>

\* one iteration of while (true); leaving the loop stores the word
BpeStep ==
    /\ bpePc = "loop"
    /\ \E it \in {BpeIteration(data, word)} :
           /\ word' = it.word
           /\ merged' = it.pair
           /\ IF it.stop
              THEN bpePc' = "done" /\ cache' = CacheStore(cache, token, it.word)
              ELSE bpePc' = "loop" /\ cache' = cache
    /\ UNCHANGED <<token, data, calls, op, text, tokenIds, out, hits,
                   codecVars, splitVars, pageVars, trainerVars>>

NextBpe == BpeEnter \/ BpeHit \/ BpeStep

SpecBpe == InitBpe /\ [][NextBpe]_vars

\* ------------------------------------------------------------------------
\* SpecLoad: loadTokenizer of the page, then bpe with the ranks it handed over
\* ------------------------------------------------------------------------

\* lines of merges.txt: the header, " a" (with the glyph of the space), "a b",
\* "b c", "a bc", an empty line
MergeLines ==
    { VersionPrefix \o <<58,32,48,46,50>>, G(32) \o <<32,97>>, <<97,32,98>>,
      <<98,32,99>>, <<97,32,98,99>>, <<>> }

\* the lines joined by \n
RECURSIVE JoinLines(_)
JoinLines(ls) ==
    IF Len(ls) = 0 THEN <<>>
    ELSE IF Len(ls) = 1 THEN ls[1] ELSE ls[1] \o <<10>> \o JoinLines(Tail(ls))

RECURSIVE LineLists(_)
LineLists(n) ==
    IF n = 0 THEN {<<>>}
    ELSE LET shorter == LineLists(n - 1)
         IN  shorter \cup {Append(ls, l) : ls \in shorter, l \in MergeLines}

MergesFiles == {JoinLines(ls) : ls \in LineLists(MaxFileLines)}

\* chunks given to bpe once the tokenizer is set
LoadChunks == {<<97,98>>, <<32,97>>, <<98,99>>, <<97,98,99>>}

InitLoad ==
    /\ data \in {TokenizerData(<<>>)}
    /\ cache = <<>>
    /\ token \in LoadChunks
    /\ word = <<>> /\ merged = <<>> /\ bpePc = "start"
    /\ calls = 0 /\ op = None /\ text = <<>> /\ tokenIds = <<>> /\ out = NoResult
    /\ hits = 0 /\ systemText = <<>> /\ userText = <<>> /\ isVerified = FALSE
    /\ loading = TRUE /\ mergesText = <<>>
    /\ CodecIdle /\ SplitIdle /\ TrainerIdle

\* loadTokenizer(), both responses ok, file being the text of merges.txt
LoadTokenizer(file) ==
    /\ loading
    /\ mergesText' = file
    /\ data' = [vocab |-> FullVocab(MergesB), merges |-> MergePairs(loadMerges(file))]
    /\ loading' = FALSE
    /\ UNCHANGED <<cache, calls, op, text, tokenIds, out, hits, systemText, userText,
                   isVerified, codecVars, splitVars, bpeVars, trainerVars>>

NextLoad ==
    \/ \E file \in MergesFiles : LoadTokenizer(file)
    \/ ~loading /\ BpeEnter
    \/ BpeStep

SpecLoad == InitLoad /\ [][NextLoad]_vars

\* ------------------------------------------------------------------------
\* SpecSplit: splitBySpecialTokens and the pattern applied to a text
\* ------------------------------------------------------------------------

InitSplit ==
    /\ data \in {TokenizerData(<<>>)}
    /\ cache = <<>>
    /\ CallIdle /\ CodecIdle /\ SplitIdle /\ BpeIdle /\ TrainerIdle

SplitText(t) ==
    /\ op' = "split" /\ text' = t
    /\ parts' = splitBySpecialTokens(t)
    /\ UNCHANGED <<chunks, data, cache, calls, tokenIds, out, hits, codecVars, bpeVars, pageVars, trainerVars>>

MatchText(t) ==
    /\ op' = "matchAll" /\ text' = t
    /\ chunks' = MatchAll(t)
    /\ UNCHANGED <<parts, data, cache, calls, tokenIds, out, hits, codecVars, bpeVars, pageVars, trainerVars>>

Gpt4MatchText(t) ==
    /\ op' = "gpt4MatchAll" /\ text' = t
    /\ chunks' = Gpt4MatchAll(t)
    /\ UNCHANGED <<parts, data, cache, calls, tokenIds, out, hits, codecVars, bpeVars, pageVars, trainerVars>>

NextSplit ==
    \/ \E t \in SegTexts : op = None /\ SplitText(t)
    \/ \E t \in SegTexts : op = None /\ MatchText(t)
    \/ \E t \in SegTexts : op = None /\ Gpt4MatchText(t)

SpecSplit == InitSplit /\ [][NextSplit]_vars

\* ------------------------------------------------------------------------
\* SpecCodec: the byte tables after initializeByteMappings, looked up
\* ------------------------------------------------------------------------

\* byteEncoder[b] and byteDecoder of it; 0 - 1 stands for undefined
CodecLookup(b) ==
    /\ byte' = b
    /\ glyph' = IF b \in DOMAIN byteEncoder THEN byteEncoder[b] ELSE 0 - 1
    /\ back' = IF glyph' \in DOMAIN byteDecoder THEN byteDecoder[glyph'] ELSE 0 - 1
    /\ op' = "lookup"
    /\ UNCHANGED <<data, cache, calls, text, tokenIds, out, hits, splitVars, bpeVars, pageVars, trainerVars>>

NextCodec == \E b \in 0..255 : CodecLookup(b)

SpecCodec == InitSplit /\ [][NextCodec]_vars

\* ------------------------------------------------------------------------
\* SpecTrain: train and encode of the trainer GPT4Tokenizer
\* ------------------------------------------------------------------------

\* corpora: words of up to seven letters, a shorter word, U+00E9 and spaces
CorpusPieces == {<<97,98,99,100,101,102,103>>, <<97,98>>, <<97>>, <<233>>, <<32>>}

Corpora == Concats(CorpusPieces, MaxCorpusPieces)

VocabSizes == {256 + k : k \in 0..MaxExtra}

HelloWorld == <<72,101,108,108,111,44,32,119,111,114,108,100,33>>

\* texts given to the trainer's encode: "Hello, world!", "abab", "ab" with
\* U+00E9, the chunk "abcdefg", <|im_end|> alone and after "a"
TrainerTexts == {HelloWorld, <<97,98,97,98>>, <<97,98,32,233>>,
                 <<97,98,99,100,101,102,103>>, ImEnd, <<97>> \o ImEnd}

Trainer ==
    [vocab |-> trainerVocab, merges |-> trainerMerges, specialTokens |-> trainerSpecials,
     nextTokenId |-> nextTokenId]

runtimeVars == <<data, cache, calls, op, text, tokenIds, out, hits, codecVars, splitVars,
                 bpeVars, pageVars>>

\* what every training method does before its loop; table is its frequency table
StartTraining(kind, c, size, table) ==
    /\ trainPc \in {"new", "done"}
    /\ trainKind' = kind /\ corpus' = c /\ vocabSize' = size
    /\ vocabBefore' = Len(trainerVocab)
    /\ trainCalls' = trainCalls + 1
    /\ wordFreqs' = table
    /\ trainPc' = "loop" /\ trainEnd' = None /\ mergeCount' = 0
    /\ UNCHANGED <<trainerFields, loads, trainerText, trainerOut, runtimeVars>>

\* train(textFilePath, size) up to the loop, c being the text of the file
TrainStart(c, size) == StartTraining("train", c, size, TrainTable(c))

\* trainFromFile(textFilePath, size, bsize) up to performBPEMerging
TrainFromFileStart(c, size, bsize) ==
    StartTraining("trainFromFile", c, size, FileTable(c, bsize))

\* fastTrain(textFilePath, size) up to the loop, the file below 500 MB
FastTrainStart(c, size) == StartTraining("fastTrain", c, size, TrainTable(c))

\* one pass of the loop of the running method, or leaving it
TrainStep ==
    /\ trainPc = "loop"
    /\ \E constKept \in IF trainKind = "fastTrain" THEN BOOLEAN ELSE {TRUE} :
       \E it \in {IF trainKind = "train" THEN TrainIteration(Trainer, wordFreqs, vocabSize)
                   ELSE IF trainKind = "trainFromFile"
                        THEN PerformIteration(Trainer, wordFreqs, vocabSize)
                        ELSE FastTrainIteration(Trainer, wordFreqs, vocabSize, mergeCount,
                                                vocabSize - vocabBefore, constKept)} :
           /\ trainerVocab' = it.tr.vocab /\ trainerMerges' = it.tr.merges
           /\ nextTokenId' = it.tr.nextTokenId
           /\ wordFreqs' = it.freqs
           /\ trainPc' = IF it.stop THEN "done" ELSE "loop"
           /\ trainEnd' = it.reason
           /\ mergeCount' = IF it.stop THEN mergeCount ELSE mergeCount + 1
    /\ UNCHANGED <<trainerSpecials, trainCallVars, loads, trainerText, trainerOut, runtimeVars>>

\* encode(t) of the trainer, before or after train
TrainerEncode(t) ==
    /\ trainPc \in {"new", "done"}
    /\ trainerText = <<>>
    /\ trainerText' = t
    /\ trainerOut' = trainerEncode(Trainer, t)
    /\ UNCHANGED <<trainerFields, trainCallVars, wordFreqs, trainPc, trainEnd, loads,
                   mergeCount, runtimeVars>>

NextTrain ==
    \/ \E c \in Corpora, size \in VocabSizes : trainCalls = 0 /\ TrainStart(c, size)
    \/ TrainStep
    \/ \E t \in TrainerTexts : TrainerEncode(t)

SpecTrain == InitSplit /\ [][NextTrain]_vars

\* ------------------------------------------------------------------------
\* One call of a training method on a fresh FastGPT4Tokenizer
\* ------------------------------------------------------------------------

\* files of lines ended by \n: "a", "b"; "ab ab", "ab"; "a ", "b"; "a", "", "b"
LineCorpora ==
    { <<97,10,98,10>>, <<97,98,32,97,98,10,97,98,10>>,
      <<97,32,10,98,10>>, <<97,10,10,98,10>> }

\* files with pairs seen three times and more, and files of several lines
FastCorpora ==
    Corpora \cup { <<97,98,32,97,98,32,97,98>>,
                   <<97,98,99,32,97,98,99,32,97,98,99>>,
                   <<97,98,32,97,98,13,10,97,98>> } \cup LineCorpora

NextFast ==
    \/ \E c \in FastCorpora, size \in VocabSizes : trainCalls = 0 /\ TrainStart(c, size)
    \/ \E c \in FastCorpora, size \in VocabSizes, bsize \in 1..MaxBatch :
           trainCalls = 0 /\ TrainFromFileStart(c, size, bsize)
    \/ \E c \in FastCorpora, size \in VocabSizes : trainCalls = 0 /\ FastTrainStart(c, size)
    \/ TrainStep

SpecFast == InitSplit /\ [][NextFast]_vars

\* ------------------------------------------------------------------------
\* The lifetime of one trainer: train, trainFromFile and load, in any order
\* ------------------------------------------------------------------------

\* files: "ab ab", "ab ab cd cd" on two lines, "cd cd cd" and the empty file
LifeCorpora ==
    { <<97,98,32,97,98>>, <<97,98,32,97,98,10,99,100,32,99,100>>,
      <<99,100,32,99,100,32,99,100>>, <<>> }

LifeSizes == {258, 261, 262}

\* directories written by save: of a fresh trainer and of trained ones
Directories ==
    { SaveDir(NewTrainer),
      SaveDir(TrainLoop(NewTrainer, TrainTable(<<97,98,32,97,98>>), 261)),
      SaveDir(TrainLoop(NewTrainer, TrainTable(<<99,100,32,99,100,32,99,100>>), 262)) }

\* load(directory), the failAt-th file missing
Load(dir, failAt) ==
    /\ trainPc \in {"new", "done"}
    /\ loads < MaxLoads
    /\ \E tr \in {load(Trainer, dir, failAt)} :
           /\ trainerVocab' = tr.vocab /\ trainerMerges' = tr.merges
           /\ trainerSpecials' = tr.specialTokens
    /\ loads' = loads + 1
    /\ trainKind' = "load" /\ trainPc' = "done"
    /\ trainEnd' = IF failAt = 0 THEN None ELSE "exception"
    /\ UNCHANGED <<nextTokenId, corpus, vocabSize, trainCalls, vocabBefore, wordFreqs,
                   mergeCount, trainerText, trainerOut, runtimeVars>>

NextLife ==
    \/ \E c \in LifeCorpora, size \in LifeSizes :
           trainCalls < MaxTrainCalls /\ TrainStart(c, size)
    \/ \E c \in LifeCorpora, size \in LifeSizes, bsize \in 1..MaxBatch :
           trainCalls < MaxTrainCalls /\ TrainFromFileStart(c, size, bsize)
    \/ \E dir \in Directories, failAt \in 0..3 : Load(dir, failAt)
    \/ TrainStep

SpecLife == InitSplit /\ [][NextLife]_vars

\* ------------------------------------------------------------------------
\* Properties of the runtime GPTTokenizer, checked under Spec
\* ------------------------------------------------------------------------

\* no special-token literal occurs in s
NoSpecialLiteral(s) ==
    \A i \in 1..Len(s) : \A k \in 1..Len(SpecialKeys) : ~LiteralAt(s, i, SpecialKeys[k])

\* the vocabulary has every byte glyph and every string a merge rule produces
VocabComplete(d) ==
    /\ \A b \in 0..255 : HasVocab(d, <<byteEncoder[b]>>)
    /\ \A i \in 1..Len(d.merges) : HasVocab(d, d.merges[i][1] \o d.merges[i][2])

\* C1: for a complete vocabulary and system and user texts without
\* special-token literals, decoding the ids of the formatted chat text gives
\* the formatted chat text back: the page's check succeeds.
C1_RoundTrip ==
    (op = "verify" /\ VocabComplete(data)
        /\ NoSpecialLiteral(systemText) /\ NoSpecialLiteral(userText))
    => (~out.threw /\ out.value = text /\ isVerified)

\* what the parts of a text contribute when each special part gives its
\* reserved id and each plain part is encoded on its own
RECURSIVE AtomicIds(_, _, _)
AtomicIds(d, ps, k) ==
    IF k > Len(ps) THEN <<>>
    ELSE (IF ps[k].isSpecial THEN <<SpecialId(ps[k].text)>>
          ELSE encode(d, <<>>, ps[k].text).value)
         \o AtomicIds(d, ps, k + 1)

\* C2: encode gives, for every text, one reserved id for each special-token
\* literal, in input order, and between them the ids of the plain text
\* encoded on its own; for "<|im_start|>system<|im_sep|>Hello<|im_end|>" the
\* reserved ids are 100264, 100266 and 100265.
C2_SpecialTokenAtomicity ==
    op = "encode" =>
        /\ ~out.threw
        /\ The({ out.value = AtomicIds(data, ps, 1) : ps \in {splitBySpecialTokens(text)} })
        /\ text = AtomicityExample =>
               /\ out.value[1] = 100264 /\ out.value[8] = 100266
               /\ out.value[Len(out.value)] = 100265
               /\ \A i \in 1..Len(out.value) : i \notin {1, 8, Len(out.value)}
                      => out.value[i] < 100257

\* the token strings of an id list: '' for an id that reverseVocab lacks
TokensOf(d, ids) ==
    [k \in 1..Len(ids) |-> IF HasReverseVocab(d, ids[k]) THEN reverseVocab(d, ids[k]) ELSE <<>>]

\* decoding with one byte buffer for every maximal run of non-special tokens
RECURSIVE BufferedDecode(_, _, _)
BufferedDecode(tokens, k, buffer) ==
    IF k > Len(tokens) THEN TextDecode(buffer)
    ELSE IF isSpecialToken(tokens[k])
         THEN TextDecode(buffer) \o tokens[k] \o BufferedDecode(tokens, k + 1, <<>>)
         ELSE The({ BufferedDecode(tokens, k + 1, next) :
                    next \in {buffer \o TokenBytes(tokens[k])} })

\* C4: decode collects the bytes of consecutive non-special tokens in one
\* buffer and UTF-8-decodes the buffer once, so a character whose bytes lie in
\* adjacent tokens is decoded to that character.
C4_DecodeBuffersRuns ==
    op = "decode" =>
        The({ out.value = BufferedDecode(tokens, 1, <<>>) : tokens \in {TokensOf(data, tokenIds)} })

\* ------------------------------------------------------------------------
\* Properties of GPTTokenizer.bpe, checked under SpecBpe
\* ------------------------------------------------------------------------

\* the rank of a pair: its place in the merge list, counted from 0
InTable(d, pair) == \E i \in 1..Len(d.merges) : d.merges[i] = pair

RankOf(d, pair) == (CHOOSE i \in 1..Len(d.merges) : d.merges[i] = pair) - 1

\* the places of w where an adjacent pair of the merge table stands
Candidates(d, w) == {i \in 1..(Len(w) - 1) : InTable(d, <<w[i], w[i + 1]>>)}

\* after is before with occurrences of pair, and nothing else, merged, none left
OnlyMerged(before, after, pair) ==
    /\ Flatten(after) = Flatten(before)
    /\ Len(after) < Len(before)
    /\ \A i \in 1..Len(after) :
           \/ after[i] = pair[1] \o pair[2]
           \/ \E j \in 1..Len(before) : after[i] = before[j]
    /\ \A i \in 1..(Len(after) - 1) : <<after[i], after[i + 1]>> # pair

\* C3: every iteration of the loop of bpe merges the adjacent pair of lowest
\* rank among those of the current word that the merge table has, and only
\* that pair; with no such pair the word is left as it is and the loop ends.
\* With rank 5 for (a, b) and rank 2 for (b, c) the chunk abc becomes [a, bc].
C3_MergePriority ==
    [][bpePc = "loop" =>
        /\ IF Candidates(data, word) = {}
           THEN word' = word /\ bpePc' = "done"
           ELSE /\ \E i \in Candidates(data, word) : merged' = <<word[i], word[i + 1]>>
                /\ \A j \in Candidates(data, word) :
                       RankOf(data, merged') <= RankOf(data, <<word[j], word[j + 1]>>)
                /\ OnlyMerged(word, word', merged')
        /\ (token = <<97, 98, 99>> /\ word = <<G(97), G(98), G(99)>> /\ data.merges = MergesA)
               => word' = <<G(97), G(98) \o G(99)>>
    ]_vars

\* the chunk abc has been taken to [a, bc] by the rules of MergesA
C3_Witness ==
    /\ bpePc = "loop" /\ token = <<97, 98, 99>> /\ data.merges = MergesA
    /\ merged = <<G(98), G(99)>> /\ word = <<G(97), G(98) \o G(99)>>

\* ------------------------------------------------------------------------
\* Properties of the byte tables, checked under SpecCodec
\* ------------------------------------------------------------------------

IsPrintableByte(b) == b \in (33..126) \cup (161..172) \cup (174..255)

\* the index of b among the bytes that are not printable, in ascending order
NonPrintableIndex(b) == Cardinality({x \in 0..(b - 1) : ~IsPrintableByte(x)})

\* C5: byteEncoder is defined on every byte 0..255, gives different bytes
\* different one-character glyphs, and byteDecoder takes each glyph back to
\* its byte; a printable byte has the character of its own code, any other
\* byte the code 256 + n, n its index among the non-printable bytes.
C5_CodecBijection ==
    /\ DOMAIN byteEncoder = 0..255
    /\ op = "lookup" =>
           /\ glyph \in 0..65535
           /\ glyph = IF IsPrintableByte(byte) THEN byte ELSE 256 + NonPrintableIndex(byte)
           /\ back = byte
           /\ \A b \in (0..255) \ {byte} : byteEncoder[b] # glyph

\* the soft hyphen, byte 173, is the last non-printable byte: glyph 256 + 67
C5_Witness == op = "lookup" /\ byte = 173 /\ glyph = 323 /\ back = 173

\* ------------------------------------------------------------------------
\* Properties of the pattern and the splitter, checked under SpecSplit
\* ------------------------------------------------------------------------

\* C6: the chunks that matching either pre-tokenization pattern gives are
\* non-empty and, concatenated in order, are exactly the input.
C6_SegmentationCoverage ==
    op \in {"matchAll", "gpt4MatchAll"} =>
        /\ \A i \in 1..Len(chunks) : chunks[i] # <<>>
        /\ Flatten(chunks) = text

\* a space, a line feed and a letter: three chunks, the last alternative used
C6_Witness ==
    /\ op = "matchAll" /\ text = <<32, 10, 97>>
    /\ chunks = << <<32>>, <<10>>, <<97>> >>

PartTexts(ps) == [i \in 1..Len(ps) |-> ps[i].text]

\* C7: the parts of splitBySpecialTokens concatenate, in order, to the input;
\* a special part is exactly one special-token literal; a non-special part is
\* non-empty and holds no special-token literal.
C7_SplitterCoverage ==
    op = "split" =>
        /\ Flatten(PartTexts(parts)) = text
        /\ \A i \in 1..Len(parts) :
               IF parts[i].isSpecial
               THEN parts[i].text \in SpecialLiterals
               ELSE parts[i].text # <<>> /\ NoSpecialLiteral(parts[i].text)

\* plain text, a literal, and the start of a literal as plain text again
C7_Witness ==
    /\ op = "split" /\ text = <<97>> \o ImEnd \o <<60, 124>>
    /\ parts = << [text |-> <<97>>, isSpecial |-> FALSE], [text |-> ImEnd, isSpecial |-> TRUE],
                  [text |-> <<60, 124>>, isSpecial |-> FALSE] >>

\* ------------------------------------------------------------------------
\* Properties of the memo cache, checked under SpecCache
\* ------------------------------------------------------------------------

\* C8: every call of encode and tokenize on one instance returns what an
\* instance with the same vocabulary and merges and an empty cache returns
\* for the same text.
C8_CacheTransparency ==
    op \in {"encode", "tokenize"} =>
        The({ out = [threw |-> r.threw, value |-> r.value] :
              r \in {IF op = "encode" THEN encode(data, <<>>, text)
                     ELSE tokenize(data, <<>>, text)} })

\* a later call that found a merged chunk in the cache
C8_Witness ==
    /\ calls >= 2 /\ hits > 0 /\ op = "encode" /\ ~out.threw
    /\ data.merges = MergesB /\ text = <<97, 98, 99>> /\ Len(out.value) = 1

\* ------------------------------------------------------------------------
\* Properties of the trainer GPT4Tokenizer, checked under SpecTrain
\* ------------------------------------------------------------------------

\* C9: a freshly constructed trainer encodes "Hello, world!" to 13 ids, one
\* for each UTF-8 byte, each the id its own vocabulary gives to the glyph of
\* that byte.
C9_HelloWorldIds ==
    (trainPc = "new" /\ trainerText = HelloWorld) =>
        /\ Len(trainerOut) = 13
        /\ \A i \in 1..13 :
               /\ MapHas(trainerVocab, <<byteEncoder[TextEncode(HelloWorld)[i]]>>)
               /\ trainerOut[i] =
                      MapGet(trainerVocab, <<byteEncoder[TextEncode(HelloWorld)[i]]>>)

\* the number of merges train makes on the text c when no target stops it
Sustained(c) ==
    Len(TrainLoop(NewTrainer, TrainTable(c), Len(NewTrainer.vocab) + Len(c) + 1).merges)

\* C10, as claimed: train on a fresh trainer with target 256 + k, on a corpus
\* that sustains at least k merges, records exactly k merges.
C10_ExactlyKMerges ==
    (trainPc = "done" /\ Sustained(corpus) >= vocabSize - 256)
        => Len(trainerMerges) = vocabSize - 256

\* C10, amended: train on a fresh trainer with target 256 + k, on a corpus
\* that sustains at least k merges, records exactly k - 4 merges, and none
\* when k is at most 4: the vocabulary of a fresh trainer holds the four
\* special tokens besides the 256 byte glyphs.
C10_MergesBelowTarget ==
    (trainPc = "done" /\ Sustained(corpus) >= vocabSize - 256)
        => Len(trainerMerges) = IF vocabSize - 256 > 4 THEN vocabSize - 256 - 4 ELSE 0

\* target 256 + 6 on "abcdefg abcdefg", which sustains six merges: two made
C10_Witness ==
    /\ trainPc = "done" /\ vocabSize = 262
    /\ corpus = <<97,98,99,100,101,102,103,32,97,98,99,100,101,102,103>>
    /\ Sustained(corpus) = 6
    /\ Len(trainerMerges) = 2

\* the list without its k-th element
RemoveAt(ids, k) == SubSeq(ids, 1, k - 1) \o SubSeq(ids, k + 1, Len(ids))

\* C16: decode returns for every id list, and an id that the reverse
\* vocabulary does not hold adds nothing: the output is the output of
\* decoding the list without that id.
C16_UnknownIdSkipped ==
    op = "decode" =>
        /\ ~out.threw
        /\ \A k \in 1..Len(tokenIds) :
               ~HasReverseVocab(data, tokenIds[k])
                   => out.value = decode(data, RemoveAt(tokenIds, k))

\* an unknown id between two known ones, the output not empty
C16_Witness ==
    /\ op = "decode" /\ Len(tokenIds) = 3
    /\ ~HasReverseVocab(data, tokenIds[2])
    /\ HasReverseVocab(data, tokenIds[1]) /\ HasReverseVocab(data, tokenIds[3])
    /\ out.value # <<>>

\* the bytes are well-formed UTF-8: decoding and encoding gives them back
ValidUtf8(bytes) == TextEncode(TextDecode(bytes)) = bytes

\* decoding that emits a token's glyph string where its bytes are malformed
RECURSIVE GlyphFallbackDecode(_, _)
GlyphFallbackDecode(tokens, k) ==
    IF k > Len(tokens) THEN <<>>
    ELSE The({ IF isSpecialToken(tokens[k]) \/ ~ValidUtf8(bytes) THEN tokens[k]
               ELSE TextDecode(bytes) : bytes \in {TokenBytes(tokens[k])} })
         \o GlyphFallbackDecode(tokens, k + 1)

\* C17: decode does not throw, and a token whose bytes are not valid UTF-8
\* adds its own glyph string to the output in place of decoded text.
C17_MalformedEmitsGlyphs ==
    op = "decode" =>
        /\ ~out.threw
        /\ The({ out.value = GlyphFallbackDecode(tokens, 1) :
                 tokens \in {TokensOf(data, tokenIds)} })

\* ------------------------------------------------------------------------
\* Properties of the trainer over its lifetime, checked under SpecLife
\* ------------------------------------------------------------------------

Larger(a, b) == IF a >= b THEN a ELSE b

Returned(kinds) == trainPc = "done" /\ trainKind \in kinds

\* C11, as claimed: after train returns, for every target of 256 or more, the
\* vocabulary holds at most as many entries as the target.
C11_VocabAtMostTarget ==
    (Returned({"train"}) /\ vocabSize >= 256) => Len(trainerVocab) <= vocabSize

\* C11, amended: after train or trainFromFile returns, the vocabulary holds at
\* most as many entries as the target or, when it held more than the target
\* before the call, exactly as many as it held before the call; a fresh
\* trainer holds 260 entries.
C11_VocabAtMostTargetOrBefore ==
    Returned({"train", "trainFromFile"}) =>
        /\ Len(trainerVocab) <= Larger(vocabSize, vocabBefore)
        /\ vocabBefore >= vocabSize => Len(trainerVocab) = vocabBefore

\* a call that made merges until the vocabulary reached the target
C11_Witness ==
    /\ Returned({"train"}) /\ trainEnd = "target"
    /\ vocabBefore < vocabSize /\ Len(trainerVocab) = vocabSize

\* ------------------------------------------------------------------------
\* Properties of one training call, checked under SpecFast
\* ------------------------------------------------------------------------

\* C12: the merge loop of train, performBPEMerging and fastTrain is left by
\* reaching the target size, by having no adjacent pairs left or by the best
\* pair's count being below the threshold, and leaving it at the threshold
\* keeps the merges recorded so far: one merge for each pass made.
C12_LoopEndsNormally ==
    Returned({"train", "trainFromFile", "fastTrain"}) =>
        /\ trainEnd \in {"target", "nopairs", "threshold"}
        /\ Len(trainerMerges) = mergeCount

\* C13: over train, trainFromFile and load calls on one trainer, no step
\* changes the id recorded for a merge pair, no step gives the id of a
\* vocabulary key to a different key, and after every step each id of the
\* merge table is the id of a vocabulary entry.
C13_AppendOnlyIds ==
    [][ /\ \A i \in 1..Len(trainerMerges), j \in 1..Len(trainerMerges') :
               trainerMerges[i].key = trainerMerges'[j].key
                   => trainerMerges[i].value = trainerMerges'[j].value
        /\ \A i \in 1..Len(trainerVocab), j \in 1..Len(trainerVocab') :
               trainerVocab[i].value = trainerVocab'[j].value
                   => trainerVocab[i].key = trainerVocab'[j].key
        /\ \A j \in 1..Len(trainerMerges') : \E k \in 1..Len(trainerVocab') :
               trainerVocab'[k].value = trainerMerges'[j].value ]_vars

\* ------------------------------------------------------------------------
\* Properties of the page's loader, checked under SpecLoad
\* ------------------------------------------------------------------------

\* a merges file of the documented form: an optional header line that starts
\* with '#', then one merge entry on each line, and at most a final newline
DocumentedFile(fileText) ==
    LET ls == SplitNewline(fileText)
    IN  \A i \in 1..Len(ls) :
            /\ LiteralAt(ls[i], 1, <<35>>) => i = 1
            /\ ls[i] = <<>> => i = Len(ls)

\* the merge entries of such a file, in file order
FileEntries(fileText) ==
    LET ls == SplitNewline(fileText)
        body == IF LiteralAt(ls[1], 1, <<35>>) THEN Tail(ls) ELSE ls
    IN  SelectSeq(body, LAMBDA l : l # <<>>)

\* C14: the merge list handed to the tokenizer holds the merge entries of the
\* merges file in file order, the first entry at rank 0, whether or not the
\* file starts with the header line.
C14_RanksInFileOrder ==
    (~loading /\ DocumentedFile(mergesText))
        => data.merges = MergePairs(FileEntries(mergesText))

\* ------------------------------------------------------------------------
\* Properties of a tokenizer with an ill-fitting vocabulary, under SpecVocab
\* ------------------------------------------------------------------------

\* C15: when tokenize(text) returns, encode(text) returns one id for each of
\* its tokens, in order: the token's own vocabulary id, and the id 100257 of
\* <|endoftext|> for a token the vocabulary does not hold.
C15_UnknownTokenFallback ==
    (op = "encode" /\ calls = 1) =>
        \A toks \in {tokenize(data, <<>>, text)} :
            ~toks.threw =>
                /\ ~out.threw
                /\ Len(out.value) = Len(toks.value)
                /\ \A i \in 1..Len(toks.value) :
                       out.value[i] = IF HasVocab(data, toks.value[i])
                                      THEN VocabOwn(data, toks.value[i])
                                      ELSE 100257

\* the token holds a character that is not one of the 256 byte glyphs
HasNoGlyph(t) == \E i \in 1..Len(t) : t[i] \notin DOMAIN byteDecoder

\* C18: decode of a list with a non-special token that holds a character
\* which is no byte glyph ends in an error; it does not return a text from
\* which the character was dropped.
C18_UnknownGlyphIsError ==
    (op = "decode" /\ \E k \in 1..Len(tokenIds) :
                         \E t \in {TokenOfId(data, tokenIds[k])} :
                             ~isSpecialToken(t) /\ HasNoGlyph(t))
        => out.threw

\* ------------------------------------------------------------------------
\* Properties of the trainer's tables, checked under SpecTrain
\* ------------------------------------------------------------------------

\* the two tables give one id to every literal that both define
TablesAgree(t1, t2) ==
    \A i \in 1..Len(t1), j \in 1..Len(t2) : t1[i].token = t2[j].token => t1[i].id = t2[j].id

\* the trainer's special tokens as a table of tokens and ids
TrainerSpecialTable ==
    [i \in 1..Len(trainerSpecials) |->
        [token |-> trainerSpecials[i].key, id |-> trainerSpecials[i].value]]

\* C19: every special-token literal has the same id in each of the trainer,
\* the runtime tokenizer and the page component's table that define it.
C19_SpecialIdsAgree ==
    /\ TablesAgree(specialTokens, pageSpecialTokens)
    /\ TablesAgree(TrainerSpecialTable, specialTokens)
    /\ TablesAgree(TrainerSpecialTable, pageSpecialTokens)

\* C20: every symbol of a frequency-table sequence that is no byte is the id
\* recorded for a merge, and is not the id of a special token.
C20_MergedSymbolIsMergeId ==
    \A i \in 1..Len(wordFreqs) : \A k \in 1..Len(wordFreqs[i].key) :
        \A sym \in {wordFreqs[i].key[k]} :
            sym >= 256 =>
                /\ \E m \in 1..Len(trainerMerges) : trainerMerges[m].value = sym
                /\ \A sp \in 1..Len(trainerSpecials) : trainerSpecials[sp].value # sym

\* encode(t) is called on the trainer after train has returned
EncodesAfterTrain ==
    trainPc = "done" /\ trainKind = "train" /\ trainerText = <<>> /\ trainerText' # <<>>

\* C21: encode of a chunk of the training corpus, called after train, returns
\* as many symbols as the chunk's sequence in the frequency table holds at
\* the end of training, each a byte or the recorded id of a merge.
C21_EncodeReplaysTraining ==
    [][ EncodesAfterTrain =>
          \A table \in {TrainTable(corpus)} : \A i \in 1..Len(table) :
              table[i].key = TextEncode(trainerText') =>
                  /\ Len(trainerOut') = Len(wordFreqs[i].key)
                  /\ \A k \in 1..Len(trainerOut') :
                         \/ trainerOut'[k] < 256
                         \/ \E m \in 1..Len(trainerMerges) :
                                trainerMerges[m].value = trainerOut'[k] ]_vars

\* the number of adjacent occurrences of the pair in the sequence w
Occurrences(w, pair) ==
    Cardinality({i \in 1..(Len(w) - 1) : w[i] = pair[1] /\ w[i + 1] = pair[2]})

\* the sum over the table of frequency times occurrences of the pair
RECURSIVE WeightedCount(_, _, _)
WeightedCount(freqs, pair, k) ==
    IF k > Len(freqs) THEN 0
    ELSE freqs[k].value * Occurrences(freqs[k].key, pair) + WeightedCount(freqs, pair, k + 1)

\* C22: the count getStats gives a pair is the sum, over the sequences of the
\* frequency table, of the frequency times the number of adjacent
\* occurrences of the pair in the sequence.
C22_PairCountsOccurrences ==
    trainPc = "loop" =>
        \A stats \in {getStats(wordFreqs)} : \A j \in 1..Len(stats) :
            stats[j].value = WeightedCount(wordFreqs, stats[j].key, 1)

\* the adjacent pairs of the table's sequences, the table scanned in
\* insertion order and each sequence left to right
RECURSIVE ScannedPairs(_, _)
ScannedPairs(freqs, k) ==
    IF k > Len(freqs) THEN <<>>
    ELSE [i \in 1..(Len(freqs[k].key) - 1) |-> <<freqs[k].key[i], freqs[k].key[i + 1]>>]
         \o ScannedPairs(freqs, k + 1)

\* where the scan discovers the pair
Discovery(scan, pair) == CHOOSE i \in 1..Len(scan) :
    scan[i] = pair /\ \A h \in 1..(i - 1) : scan[h] # pair

\* C23: the pair a merging pass records has the highest count of all pairs of
\* the frequency table, and of the pairs with that count it is the one the
\* scan of the table discovers first.
C23_BestPairFirstOfHighest ==
    [][ (trainPc = "loop" /\ Len(trainerMerges') = Len(trainerMerges) + 1) =>
          \A chosen \in {trainerMerges'[Len(trainerMerges')].key} :
          \A stats \in {getStats(wordFreqs)} :
          \A scan \in {ScannedPairs(wordFreqs, 1)} :
              /\ MapHas(stats, chosen)
              /\ \A j \in 1..Len(stats) :
                     /\ stats[j].value <= MapGet(stats, chosen)
                     /\ stats[j].value = MapGet(stats, chosen)
                            => Discovery(scan, chosen) <= Discovery(scan, stats[j].key) ]_vars

\* a merge was made and the next pass finds several pairs with the highest count
C23_Witness ==
    /\ trainPc = "loop" /\ trainKind = "train" /\ Len(trainerMerges) >= 1
    /\ Len(trainerVocab) < vocabSize
    /\ \E stats \in {getStats(wordFreqs)} : \E i, j \in 1..Len(stats) :
           /\ i # j /\ stats[i].value = stats[j].value /\ stats[i].value >= 2
           /\ \A h \in 1..Len(stats) : stats[h].value <= stats[i].value

\* the literal occurs in the text
Occurs(t, lit) == \E pos \in 1..Len(t) : LiteralAt(t, pos, lit)

\* C24: the output of the trainer's encode holds the reserved id of every
\* special-token literal that occurs in the text, and a text that is one
\* special-token literal is encoded to that id alone.
C24_TrainerSpecialIds ==
    trainerText # <<>> =>
        \A i \in 1..Len(trainerSpecials) :
            /\ Occurs(trainerText, trainerSpecials[i].key)
                   => \E k \in 1..Len(trainerOut) : trainerOut[k] = trainerSpecials[i].value
            /\ trainerText = trainerSpecials[i].key
                   => trainerOut = <<trainerSpecials[i].value>>

\* C25: for every recorded merge of two bytes, the vocabulary gives the
\* merge's id to the concatenation of the glyphs of the two bytes.
C25_MergedTokenString ==
    \A m \in 1..Len(trainerMerges) :
        \A pair \in {trainerMerges[m].key} :
            (pair[1] < 256 /\ pair[2] < 256) =>
                /\ MapHas(trainerVocab, G(pair[1]) \o G(pair[2]))
                /\ MapGet(trainerVocab, G(pair[1]) \o G(pair[2])) = trainerMerges[m].value

\* the entries of a map, whatever their order
Entries(m) == {m[i] : i \in 1..Len(m)}

\* C26: a load that fails at one of its three files leaves the vocabulary,
\* the merge table and the special tokens with the entries they had.
C26_FailedLoadChangesNothing ==
    [][ (loads' = loads + 1 /\ trainEnd' = "exception") =>
          /\ Entries(trainerVocab') = Entries(trainerVocab)
          /\ Entries(trainerMerges') = Entries(trainerMerges)
          /\ Entries(trainerSpecials') = Entries(trainerSpecials) ]_vars

\* C27: during and after one train call on a fresh trainer, the ids of the
\* merge table are 260, 261, ... in the order the merges were accepted, every
\* accepted merge has its own entry in the merge table (no pair was recorded
\* twice) and its own new entry in the vocabulary, and no two vocabulary
\* entries share an id: the i-th entry of the vocabulary has the id i - 1.
C27_MergeTableInvariants ==
    (trainKind = "train" /\ trainCalls = 1) =>
        /\ \A m \in 1..Len(trainerMerges) : trainerMerges[m].value = 260 + (m - 1)
        /\ Len(trainerMerges) = mergeCount
        /\ Len(trainerVocab) = 260 + mergeCount
        /\ nextTokenId = 260 + mergeCount
        /\ \A m \in 1..Len(trainerMerges) :
               trainerVocab[260 + m].value = trainerMerges[m].value
        /\ \A i \in 1..Len(trainerVocab) : trainerVocab[i].value = i - 1

\* a train call that accepted three merges
C27_Witness ==
    /\ Returned({"train"}) /\ trainCalls = 1
    /\ mergeCount = 3 /\ Len(trainerMerges) = 3

\* ------------------------------------------------------------------------
\* Properties of the pattern's alternatives, checked under SpecSplit
\* ------------------------------------------------------------------------

\* where the i-th chunk starts in the text the chunks cover
ChunkStart(cs, i) == 1 + Len(Flatten(SubSeq(cs, 1, i - 1)))

\* the lengths the six alternatives match where the i-th chunk starts
ChunkAltLens(i) ==
    AltLens(text, ChunkStart(chunks, i),
            IF op = "matchAll" THEN Contractions ELSE Gpt4Contractions)

\* C28, as claimed: every chunk is the longest of the matches that the
\* alternatives of the pattern have where the chunk starts.
C28_LongestAlternative ==
    op \in {"matchAll", "gpt4MatchAll"} =>
        \A i \in 1..Len(chunks) : \A lens \in {ChunkAltLens(i)} :
            \A a \in 1..Len(lens) : lens[a] <= Len(chunks[i])

\* C28, amended: every chunk is the match of the first alternative, in the
\* order of the pattern, that matches where the chunk starts.
C28_FirstAlternative ==
    op \in {"matchAll", "gpt4MatchAll"} =>
        \A i \in 1..Len(chunks) : \A lens \in {ChunkAltLens(i)} :
            \E a \in 1..Len(lens) :
                /\ lens[a] > 0 /\ lens[a] = Len(chunks[i])
                /\ \A b \in 1..(a - 1) : lens[b] = 0

\* two spaces and a letter: the fifth alternative takes one space although
\* the sixth matches both
C28_Witness ==
    /\ op = "matchAll" /\ text = <<32, 32, 97>>
    /\ chunks = << <<32>>, <<32, 97>> >>
    /\ ChunkAltLens(1) = <<0, 0, 0, 0, 1, 2>>

\* ------------------------------------------------------------------------
\* Properties of the whole of bpe, checked under SpecBpe
\* ------------------------------------------------------------------------

\* the bytes of the symbols of a word, glyph-decoded and concatenated
RECURSIVE WordBytes(_)
WordBytes(w) ==
    IF w = <<>> THEN <<>> ELSE TokenBytes(Head(w)) \o WordBytes(Tail(w))

\* the loop of bpe keeps the glyph string of the chunk, every merge makes the
\* word shorter, and a word the loop is left with holds the chunk's bytes
BpeLoopPreservesContent ==
    [][bpePc = "loop" =>
        /\ Flatten(word) = Flatten(GlyphWord(token))
        /\ Flatten(word') = Flatten(word)
        /\ Candidates(data, word) # {} => Len(word') < Len(word)
        /\ Candidates(data, word) = {} => bpePc' = "done"
        /\ bpePc' = "done" => WordBytes(word') = TextEncode(token)
    ]_vars

\* C29: in the loop of bpe the symbols of the word concatenate to the glyph
\* string of the chunk, and what bpe returns for a chunk is a list of tokens
\* whose glyph-decoded bytes are the chunk's UTF-8 bytes.
C29_BpePreservesContent ==
    /\ bpePc = "loop" => Flatten(word) = Flatten(GlyphWord(token))
    /\ bpePc \in {"done", "inherited"} =>
           bpePc = "done" /\ WordBytes(word) = TextEncode(token)

\* ------------------------------------------------------------------------
\* Properties of the batches of trainFromFile, checked under SpecFast
\* ------------------------------------------------------------------------

\* a file whose lines end by \n, the last one included
NewlineEnded(c) ==
    /\ c # <<>> /\ c[Len(c)] = 10
    /\ \A i \in 1..Len(c) : c[i] # 13

\* C30: for a file of lines ended by \n, the frequency table trainFromFile
\* has built when it starts merging holds, for every batch size, the chunks
\* and counts of the table train builds from the whole text of the file.
C30_BatchingKeepsTable ==
    [][(trainKind' = "trainFromFile" /\ trainCalls' = trainCalls + 1
            /\ NewlineEnded(corpus'))
        => Entries(wordFreqs') = Entries(TrainTable(corpus'))
    ]_vars

====
